---- MODULE Spec2Model ----
(***************************************************************************)
(* Job orchestration of the IGR document downloader: the job records of    *)
(* app.py, run_automation of automation.py and the WebDriverPool of        *)
(* webdriver_pool.py.                                                      *)
(*                                                                         *)
(* The specifications:                                                     *)
(*   Spec     the program as written: run_automation reads the local       *)
(*            documents_processed at automation.py:113, before any         *)
(*            assignment to it and outside the try block, so every run     *)
(*            ends there with an uncaught UnboundLocalError.               *)
(*   SpecTry  run_automation with the block of lines 109-143 left out, so  *)
(*            that the try / except / finally of lines 146-905 and the     *)
(*            pool are exercised.                                          *)
(*   SpecJob  one request of SpecTry with the traversal of lines 394-847   *)
(*            step by step, and a job_status handler reading the record.   *)
(*   SpecCaptcha  one call of captcha_solver.solve_and_submit_captcha.     *)
(*   SpecPages    one call of document_processor.process_all_index_buttons *)
(*            and of the navigate_to_next_page calls it makes, on a site   *)
(*            that works, is stuck or is erratic; SpecPagesLive adds that  *)
(*            each step is taken at some time.                             *)
(*   SpecApp      the requests of app.py on the records and their output   *)
(*            directories, and the sweep cleanup_old_jobs.                 *)
(*   SpecSelenium  run_automation of selenium_automation.py.               *)
(*   SpecLoop     the loop of automation.py:395-847 alone, over result     *)
(*            sets of several pages; SpecLoopLive adds that each step is   *)
(*            taken at some time.                                          *)
(*   SpecForm     the try block of run_automation stage by stage: the      *)
(*            form, the CAPTCHA call, the start of the traversal.          *)
(*   SpecDocs     one call of document_processor.process_page_documents    *)
(*            and of the process_button_simply calls it makes.             *)
(*   SpecRemoval  one request of SpecTry with cleanup_job and              *)
(*            cleanup_old_jobs removing its record during the run.         *)
(***************************************************************************)
EXTENDS Integers, Sequences, FiniteSets, TLC

\* ------------------------------------------------------------ bounds
NumJobs == 2         \* concurrent download requests (threads)
MaxPool == 1         \* largest max_drivers the pool is constructed with
MaxDocs == 1         \* largest number of documents of a result set
MaxShutdowns == 1    \* calls of WebDriverPool.shutdown
MaxCaptchaAttempts == 3  \* largest max_attempts solve_and_submit_captcha is called with
MaxImages == 3       \* CAPTCHA images the site shows during one call
MaxSitePages == 2    \* pages of the result set process_all_index_buttons walks
MaxIterations == 7   \* iterations of its page loop: stands for max_pages
MaxButtons == 3      \* action elements of the page process_page_documents works on
MaxTotal == 3        \* largest total_documents_found the loop of automation.py:395 starts with

max_attempts == 3    \* automation.py:424
max_attempts_per_page == 2      \* document_processor.py:182
max_navigation_failures == 3    \* document_processor.py:183
\* document_processor.py:181 has max_pages = 100; the ceiling is scaled to
\* MaxIterations, which is above what the other two limits allow a page
max_pages == MaxIterations

J == 1..NumJobs      \* job ids; handle h is the one constructed by job h
H == 1..NumJobs
None == 0

VARIABLES
  jobs,                \* app.py:21      dict job_id -> record
  pc,                  \* position of each job's thread
  driver,              \* automation.py:99   run_automation's local `driver`
  popped,              \* webdriver_pool.py:20  get_driver's local `driver`
  documents_processed, \* automation.py:346
  successfully_downloaded, \* automation.py:344
  total_documents_found,   \* automation.py:347
  index_buttons,       \* automation.py:406  buttons of the page still to iterate
  attempt,             \* automation.py:427
  max_drivers,         \* webdriver_pool.py:12
  available_drivers,   \* webdriver_pool.py:13
  lock,                \* webdriver_pool.py:14  holder of the pool lock, None when free
  handles,             \* the browser sessions
  shutdowns,           \* the calls of WebDriverPool.shutdown: the drivers each one quit
  response,            \* the answer job_status is building
  solver,              \* captcha_solver.py:115  the call of solve_and_submit_captcha
  engine,              \* document_processor.py:145  the call of process_all_index_buttons
  store,               \* app.py: the output directories, the ages and the sweep
  sa,                  \* selenium_automation.py:244  the calls of its run_automation
  form,                \* automation.py:146  one run's way through the search form
  docs,                \* document_processor.py:868  the call of process_page_documents
  hist                 \* history of each run (what it raised, pooled, quit)

vars == <<jobs, pc, driver, popped, documents_processed, successfully_downloaded,
          total_documents_found, index_buttons, attempt, max_drivers, available_drivers, lock, handles,
          shutdowns, response, solver, engine, store, sa, form, docs, hist>>

poolVars == <<max_drivers, available_drivers, lock, handles, shutdowns>>
locals == <<documents_processed, successfully_downloaded, total_documents_found,
            index_buttons, attempt>>
more == <<engine, store, sa, form, docs>>

\* ------------------------------------------------------------ helpers
Range(s) == {s[i] : i \in 1..Len(s)}

NoHandle == [state |-> "unborn", tabs |-> 0, cookies |-> FALSE, page |-> "blank",
             pendingTab |-> FALSE]

NoHist == [obtained |-> FALSE, uncaught |-> FALSE, raised |-> FALSE,
           pooled |-> 0, quits |-> 0, resetFailed |-> FALSE, sawFull |-> FALSE,
           ctorRaised |-> FALSE, files |-> {}, captcha |-> "", iterations |-> 0]

\* the answer job_status is building: `at` is the line it has reached, code 0
\* while it has not returned
NoResponse == [job_id |-> None, at |-> "idle", code |-> 0, status |-> "",
               total_documents |-> 0, downloaded_documents |-> 0,
               error |-> "", message |-> ""]

\* the call of solve_and_submit_captcha and the page it works on.
\*   at, max_attempts, captcha_hash   the call's position, argument and local
\*   attempts      iterations of the loop of line 134 begun (attempt + 1)
\*   page, image   what the site shows: the form with CAPTCHA image number
\*                 `image`, the result links, the no-records message, or neither
\*   captured      the image that was on the page when line 159 captured it
\*   ok1, ok2      the re-check of lines 173-184 / 201-213 compared two
\*                 fingerprints and found them equal
\*   clicks, abandoned, other   attempts that clicked the search button, that
\*                 were given up because a re-check saw another image, that
\*                 ended without a click for another reason
\*   uncheckedClick, rotatedClick   a click was made without both re-checks
\*                 having found the image unchanged / on another image than
\*                 the captured one
NoSolver == [at |-> "idle", max_attempts |-> 0, attempts |-> 0, captcha_hash |-> 0,
             page |-> "captcha", image |-> 1, captured |-> 0,
             ok1 |-> FALSE, ok2 |-> FALSE, clicked |-> FALSE,
             clicks |-> 0, abandoned |-> 0, other |-> 0,
             uncheckedClick |-> FALSE, rotatedClick |-> FALSE, result |-> ""]

Terminal(j) == j \in DOMAIN jobs /\ jobs[j].status \in {"completed", "failed"}

\* a write jobs[job_id][field] = value
SetField(j, field, value) == jobs' = [jobs EXCEPT ![j] = [jobs[j] EXCEPT ![field] = value]]

Goto(j, where) == pc' = [pc EXCEPT ![j] = where]

Note(j, field, value) == hist' = [hist EXCEPT ![j] = [hist[j] EXCEPT ![field] = value]]

\* the function returns: its locals are gone, and so is what was noted about
\* the calls it made
Returned(h) == [h EXCEPT !.resetFailed = FALSE, !.sawFull = FALSE, !.ctorRaised = FALSE]

Exit(j) ==
  /\ pc' = [pc EXCEPT ![j] = "exit"]
  /\ driver' = [driver EXCEPT ![j] = None]

\* the frame of a call of navigate_to_next_page (document_processor.py:339)
NoNav == [at |-> "off", caller |-> "", links |-> {}, ellipses |-> {}, stale |-> FALSE,
          tried |-> << >>, skipped |-> {}, verified |-> FALSE, ret |-> FALSE]

\* the remote result grid (kind, pages, width, beyond, shown, buttons), the
\* locals of process_all_index_buttons (document_processor.py:166-188), the
\* frame of the call of navigate_to_next_page it makes, and the history of
\* the call: how often the documents of each page of the site were added,
\* whether a page id already in processed_pages was processed again, the
\* forced advances of lines 214 and 283, whether a browser call failed
NoEngine ==
  [at |-> "idle", kind |-> "", pages |-> 0, width |-> 0, beyond |-> "",
   shown |-> 0, buttons |-> FALSE,
   current_page |-> 0, iteration |-> 0, page_attempts |-> << >>,
   consecutive_failures |-> 0, documents_processed |-> 0,
   processed_pages |-> {}, result |-> "", nav |-> NoNav,
   counted |-> << >>, reprocessed |-> FALSE, forced |-> 0, faulted |-> FALSE,
   runs |-> << >>]

\* app.py: the output directory of each job (whether it exists, and which
\* handler removed it), whether a record is older than 24 hours, the keys
\* removed from `jobs` (a record that was deleted stays alive for the
\* handlers that hold a reference to it), the records the sweep removed,
\* and the frames of cleanup_old_jobs, cleanup_job and download_results
NoRequest == [at |-> "idle", job_id |-> None, code |-> 0, message |-> ""]

NoStore ==
  [dir |-> [j \in J |-> FALSE], rmtree |-> [j \in J |-> ""], old |-> [j \in J |-> FALSE],
   deleted |-> {}, swept |-> {},
   sweep |-> [at |-> "idle", expired |-> {}, todo |-> {}, size |-> 0, jobs_to_remove |-> {}],
   cj |-> NoRequest, dr |-> NoRequest]

\* job_id in jobs
Present(j) == j \in DOMAIN jobs /\ j \notin store.deleted

\* selenium_automation.py: the record jobs[job_id] and the position of each
\* call of run_automation; `absent` stands for a key the record does not have
NoSa == [j \in J |-> [at |-> "none", status |-> "pending", error |-> "absent",
                      error_message |-> "absent", message |-> "absent",
                      driver |-> "none", exception |-> "", opened |-> FALSE,
                      uncaught |-> FALSE]]

\* the stages of the search form, in the order of automation.py:150-290
Stages == <<"open_site", "regional_mode", "year", "district", "tahsil", "village",
            "property_number">>

\* automation.py:146-343: the position of one run in the form, the stage it
\* is at and the attempt of that stage, the attempts each stage was given,
\* the stages that succeeded, the stage whose exception left the form and
\* the kind of that exception, whether solve_and_submit_captcha was called
\* and what it returned, whether the traversal of line 343 was reached, and
\* the status written to the record
NoForm == [at |-> "idle", stage |-> 0, attempt |-> 0, attempts |-> [s \in 1..7 |-> 0],
           succeeded |-> {}, failed |-> 0, exception |-> "", captcha |-> "",
           called |-> FALSE, traversal |-> FALSE, status |-> "running", error |-> ""]

\* the frame of a call of process_button_simply (document_processor.py:1375)
\* with the strategies that ran and whether each had an observable effect
NoButton == [at |-> "off", postback |-> FALSE, click_successful |-> FALSE,
             tried |-> << >>, effects |-> << >>, ret |-> "none"]

\* document_processor.py:868: one call of process_page_documents: the action
\* elements found when processing started, the index of the loop, the two
\* counters, the calls of process_button_simply and how each ended, and
\* whether the loop was left by `break` or by an exception
NoDocs == [at |-> "idle", buttons |-> 0, i |-> 0, page_processed |-> 0,
           page_downloaded |-> 0, log |-> << >>, broke |-> FALSE, faulted |-> FALSE,
           button |-> NoButton, clicks |-> << >>]

\* ------------------------------------------------------------ initial state
InitCommon ==
  /\ jobs = << >>
  /\ pc = [j \in J |-> "none"]
  /\ driver = [j \in J |-> None]
  /\ popped = [j \in J |-> None]
  /\ documents_processed = [j \in J |-> 0]
  /\ successfully_downloaded = [j \in J |-> 0]
  /\ total_documents_found = [j \in J |-> 0]
  /\ index_buttons = [j \in J |-> 0]
  /\ attempt = [j \in J |-> 0]
  /\ max_drivers \in 1..MaxPool
  /\ available_drivers = << >>
  /\ lock = None
  /\ handles = [h \in H |-> NoHandle]
  /\ shutdowns = << >>
  /\ response = NoResponse
  /\ hist = [j \in J |-> NoHist]

Init ==
  /\ InitCommon
  /\ solver = NoSolver /\ engine = NoEngine /\ store = NoStore /\ sa = NoSa
  /\ form = NoForm /\ docs = NoDocs

\* ------------------------------------------------------------ app.py
\* POST /api/download_documents: the record is created with status
\* "starting" and the thread running run_automation is started.
download_documents(j) ==
  /\ pc[j] = "none"
  /\ j \notin DOMAIN jobs
  /\ jobs' = jobs @@ (j :> [status |-> "starting", error |-> "", message |-> "",
                           total_documents |-> 0, downloaded_documents |-> 0])
  /\ Goto(j, "start")
  /\ UNCHANGED <<driver, popped, locals, poolVars, response, solver, hist, more>>

\* GET /api/job_status/<job_id>: the handler runs in its own thread and reads
\* the record field by field, in the order of lines 126-137, while the run
\* writes it; job_status(j) is one step of the handler.
\*   lines 118-124  job_id not in jobs: 404; else job = jobs[job_id]
\*   line 126       job["status"]
\*   line 128       job["total_documents"]
\*   line 129       job.get("downloaded_documents", 0)
\*   lines 133-134  job["error"] if present
\*   lines 135-139  job["message"] if present; return
job_status(j) ==
  /\ CASE response.at = "idle" ->
            response' = IF Present(j)
                        THEN [NoResponse EXCEPT !.job_id = j, !.at = "status"]
                        ELSE [NoResponse EXCEPT !.job_id = j, !.code = 404, !.status = "error"]
       [] response.at = "status" ->
            /\ response.job_id = j
            /\ response' = [response EXCEPT !.status = jobs[j].status, !.at = "total"]
       [] response.at = "total" ->
            /\ response.job_id = j
            /\ response' = [response EXCEPT !.total_documents = jobs[j].total_documents,
                                            !.at = "downloaded"]
       [] response.at = "downloaded" ->
            /\ response.job_id = j
            /\ response' = [response EXCEPT
                              !.downloaded_documents = jobs[j].downloaded_documents,
                              !.at = "error"]
       [] response.at = "error" ->
            /\ response.job_id = j
            /\ response' = [response EXCEPT !.error = jobs[j].error, !.at = "message"]
       [] response.at = "message" ->
            /\ response.job_id = j
            /\ response' = [response EXCEPT !.message = jobs[j].message, !.code = 200,
                                            !.at = "idle"]
  /\ UNCHANGED <<jobs, pc, driver, popped, locals, poolVars, hist, solver, more>>

\* ------------------------------------------------------------ run_automation, lines 96-144
\* driver = None; jobs[job_id]["status"] = "running"; a record that
\* cleanup_job removed before the thread ran makes the write a KeyError,
\* outside the try block
ra_running(j) ==
  /\ pc[j] = "start"
  /\ IF Present(j)
     THEN SetField(j, "status", "running") /\ Goto(j, "makedirs") /\ UNCHANGED hist
     ELSE /\ Goto(j, "exit")
          /\ hist' = [hist EXCEPT ![j].raised = TRUE, ![j].uncaught = TRUE]
          /\ UNCHANGED jobs
  /\ driver' = [driver EXCEPT ![j] = None]
  /\ UNCHANGED <<popped, locals, poolVars, response, solver, more>>

\* os.makedirs(output_dir), os.makedirs(debug_dir): outside the try block, an
\* OSError ends the thread.
ra_makedirs(j) ==
  /\ pc[j] = "makedirs"
  /\ \E ok \in BOOLEAN :
       IF ok
       THEN /\ Goto(j, "prelude")
            /\ store' = [store EXCEPT !.dir[j] = TRUE]
            /\ UNCHANGED hist
       ELSE /\ Goto(j, "exit")
            /\ hist' = [hist EXCEPT ![j].raised = TRUE, ![j].uncaught = TRUE]
            /\ UNCHANGED store
  /\ UNCHANGED <<jobs, driver, popped, locals, poolVars, response, solver, engine, sa,
                 form, docs>>

\* processed_pages = set(); while documents_processed < total_documents_found:
\* documents_processed is a local of the function (assigned at line 346) that
\* has no value yet: the read raises UnboundLocalError, outside the try block.
ra_processed_pages_loop(j) ==
  /\ pc[j] = "prelude"
  /\ Goto(j, "exit")
  /\ hist' = [hist EXCEPT ![j].raised = TRUE, ![j].uncaught = TRUE]
  /\ UNCHANGED <<jobs, driver, popped, locals, poolVars, response, solver, more>>

\* ------------------------------------------------------------ browser sessions
Alive(h) == handles[h].state = "live"

\* A browser call on a live session returns or raises; on a session that was
\* quit it raises.
Outcomes(h) == IF Alive(h) THEN BOOLEAN ELSE {FALSE}

Fresh == [state |-> "live", tabs |-> 1, cookies |-> FALSE, page |-> "blank",
          pendingTab |-> FALSE]

SetHandle(h, field, value) ==
  handles' = [handles EXCEPT ![h] = [handles[h] EXCEPT ![field] = value]]

\* driver.quit(): the session is gone whether or not the call raises
QuitHandle(h) == SetHandle(h, "state", "quit")

\* handles that exist and are not idle in the pool
InFlight == {h \in H : Alive(h) /\ h \notin Range(available_drivers)}

\* A document tab that did not open within the 15 s of automation.py:448-461
\* opens later, while the results page that requested it is still loaded.
late_tab(h) ==
  /\ Alive(h)
  /\ handles[h].pendingTab
  /\ handles[h].page = "site"
  /\ handles' = [handles EXCEPT ![h].tabs = 2, ![h].pendingTab = FALSE]
  /\ UNCHANGED <<jobs, pc, driver, popped, locals, max_drivers, available_drivers,
                 lock, shutdowns, response, solver, hist, more>>

\* ------------------------------------------------------------ WebDriverPool.get_driver
\* with self.lock: if self.available_drivers: driver = self.available_drivers.pop()
get_driver_lock(j) ==
  /\ pc[j] = "get_driver"
  /\ lock = None
  /\ IF available_drivers # << >>
     THEN /\ popped' = [popped EXCEPT ![j] = available_drivers[Len(available_drivers)]]
          /\ available_drivers' = SubSeq(available_drivers, 1, Len(available_drivers) - 1)
          /\ lock' = j
          /\ Goto(j, "gd_tabs")
     ELSE /\ Goto(j, "gd_create")
          /\ UNCHANGED <<popped, available_drivers, lock>>
  /\ UNCHANGED <<jobs, driver, locals, max_drivers, handles, shutdowns,
                 response, solver, hist, more>>

\* lines 23-33: close the extra tabs of the reused driver; an error is logged
get_driver_tabs(j) ==
  /\ pc[j] = "gd_tabs"
  /\ \E ok \in Outcomes(popped[j]) :
       IF ok THEN SetHandle(popped[j], "tabs", 1) ELSE UNCHANGED handles
  /\ Goto(j, "gd_reset")
  /\ UNCHANGED <<jobs, driver, popped, locals, max_drivers, available_drivers, lock,
                 shutdowns, response, solver, hist, more>>

\* lines 35-48: delete_all_cookies, get("about:blank"); on an error the driver
\* is quit and a new one is created, still inside the lock
get_driver_reset(j) ==
  /\ pc[j] = "gd_reset"
  /\ \E ok \in Outcomes(popped[j]) :
       IF ok
       THEN /\ handles' = [handles EXCEPT ![popped[j]].cookies = FALSE,
                                          ![popped[j]].page = "blank"]
            /\ driver' = [driver EXCEPT ![j] = popped[j]]
            /\ popped' = [popped EXCEPT ![j] = None]
            /\ lock' = None
            /\ Note(j, "obtained", TRUE)
            /\ Goto(j, "open_site")
       ELSE /\ QuitHandle(popped[j])
            /\ popped' = [popped EXCEPT ![j] = None]
            /\ Goto(j, "gd_create")
            /\ UNCHANGED <<driver, lock, hist>>
  /\ UNCHANGED <<jobs, locals, max_drivers, available_drivers,
                 shutdowns, response, solver, more>>

\* a capacity check that the pool does not make
get_driver_create_capped(j) ==
  /\ pc[j] = "gd_create"
  /\ IF Cardinality(InFlight) < max_drivers
     THEN /\ handles' = [handles EXCEPT ![j] = Fresh]
          /\ driver' = [driver EXCEPT ![j] = j]
          /\ Note(j, "obtained", TRUE)
          /\ Goto(j, "open_site")
     ELSE /\ hist' = [hist EXCEPT ![j].raised = TRUE]
          /\ Goto(j, "except")
          /\ UNCHANGED <<handles, driver>>
  /\ lock' = IF lock = j THEN None ELSE lock
  /\ UNCHANGED <<jobs, popped, locals, max_drivers, available_drivers,
                 shutdowns, response, solver, more>>

\* _create_new_driver (lines 53-105), reached from line 46 (lock held) or line
\* 51 (lock released): webdriver.Chrome(...) returns a session or raises
get_driver_create(j) ==
  /\ pc[j] = "gd_create"
  /\ \E ok \in BOOLEAN :
       IF ok
       THEN /\ handles' = [handles EXCEPT ![j] = Fresh]
            /\ driver' = [driver EXCEPT ![j] = j]
            /\ Note(j, "obtained", TRUE)
            /\ Goto(j, "open_site")
       ELSE /\ hist' = [hist EXCEPT ![j].ctorRaised = TRUE, ![j].raised = TRUE]
            /\ Goto(j, "except")
            /\ UNCHANGED <<handles, driver>>
  /\ lock' = IF lock = j THEN None ELSE lock
  /\ UNCHANGED <<jobs, popped, locals, max_drivers, available_drivers,
                 shutdowns, response, solver, more>>

\* ------------------------------------------------------------ WebDriverPool.return_driver
\* line 112: driver.delete_all_cookies(); an error goes to the handler of line 141
return_driver_cookies(j) ==
  /\ pc[j] = "rd_cookies"
  /\ \E ok \in Outcomes(driver[j]) :
       IF ok
       THEN SetHandle(driver[j], "cookies", FALSE) /\ Goto(j, "rd_tabs")
       ELSE UNCHANGED handles /\ Goto(j, "rd_except")
  /\ UNCHANGED <<jobs, driver, popped, locals, max_drivers, available_drivers, lock,
                 shutdowns, response, solver, hist, more>>

\* lines 115-124: close the extra tabs; an error is logged and the return goes on
return_driver_tabs(j) ==
  /\ pc[j] = "rd_tabs"
  /\ \E ok \in Outcomes(driver[j]) :
       IF ok
       THEN SetHandle(driver[j], "tabs", 1) /\ UNCHANGED hist
       ELSE UNCHANGED handles /\ Note(j, "resetFailed", TRUE)
  /\ Goto(j, "rd_blank")
  /\ UNCHANGED <<jobs, driver, popped, locals, max_drivers, available_drivers, lock,
                 shutdowns, response, solver, more>>

\* lines 127-130: driver.get("about:blank"); an error is passed over
return_driver_blank(j) ==
  /\ pc[j] = "rd_blank"
  /\ \E ok \in Outcomes(driver[j]) :
       IF ok
       THEN SetHandle(driver[j], "page", "blank") /\ UNCHANGED hist
       ELSE UNCHANGED handles /\ Note(j, "resetFailed", TRUE)
  /\ Goto(j, "rd_lock")
  /\ UNCHANGED <<jobs, driver, popped, locals, max_drivers, available_drivers, lock,
                 shutdowns, response, solver, more>>

\* the pool appends whatever the number of idle drivers
return_driver_lock_unbounded(j) ==
  /\ pc[j] = "rd_lock"
  /\ lock = None
  /\ available_drivers' = Append(available_drivers, driver[j])
  /\ hist' = [hist EXCEPT ![j].pooled = @ + 1,
                          ![j].sawFull = Len(available_drivers) >= max_drivers]
  /\ Goto(j, "rmdir")
  /\ UNCHANGED <<jobs, driver, popped, locals, max_drivers, lock, handles,
                 shutdowns, response, solver, more>>

\* lines 132-136: with self.lock: if len(self.available_drivers) < self.max_drivers:
\* append and return
return_driver_lock(j) ==
  /\ pc[j] = "rd_lock"
  /\ lock = None
  /\ IF Len(available_drivers) < max_drivers
     THEN /\ available_drivers' = Append(available_drivers, driver[j])
          /\ hist' = [hist EXCEPT ![j].pooled = @ + 1]
          /\ Goto(j, "rmdir")
     ELSE /\ Note(j, "sawFull", TRUE)
          /\ Goto(j, "rd_full")
          /\ UNCHANGED available_drivers
  /\ UNCHANGED <<jobs, driver, popped, locals, max_drivers, lock, handles,
                 shutdowns, response, solver, more>>

\* lines 138-140: the pool is full, driver.quit(); an error goes to line 141
return_driver_full(j) ==
  /\ pc[j] = "rd_full"
  /\ QuitHandle(driver[j])
  /\ hist' = [hist EXCEPT ![j].quits = @ + 1]
  /\ \E ok \in BOOLEAN : Goto(j, IF ok THEN "rmdir" ELSE "rd_except")
  /\ UNCHANGED <<jobs, driver, popped, locals, max_drivers, available_drivers, lock,
                 shutdowns, response, solver, more>>

\* lines 141-146: except Exception: try: driver.quit() except: pass
return_driver_except(j) ==
  /\ pc[j] = "rd_except"
  /\ QuitHandle(driver[j])
  /\ hist' = [hist EXCEPT ![j].quits = @ + 1]
  /\ Goto(j, "rmdir")
  /\ UNCHANGED <<jobs, driver, popped, locals, max_drivers, available_drivers, lock,
                 shutdowns, response, solver, more>>

\* ------------------------------------------------------------ WebDriverPool.shutdown
\* the loop stops at the first quit that raises
shutdown_unguarded ==
  /\ lock = None
  /\ Len(shutdowns) < MaxShutdowns
  /\ \E raising \in SUBSET Range(available_drivers) :
       LET first == IF \E i \in 1..Len(available_drivers) : available_drivers[i] \in raising
                    THEN CHOOSE i \in 1..Len(available_drivers) :
                           /\ available_drivers[i] \in raising
                           /\ \A k \in 1..(i - 1) : available_drivers[k] \notin raising
                    ELSE 0
           reached == IF first = 0 THEN Range(available_drivers)
                      ELSE {available_drivers[k] : k \in 1..first}
       IN /\ handles' = [h \in H |-> IF h \in reached
                                     THEN [handles[h] EXCEPT !.state = "quit"]
                                     ELSE handles[h]]
          /\ shutdowns' = Append(shutdowns, reached)
          /\ available_drivers' = IF first = 0 THEN << >> ELSE available_drivers
  /\ UNCHANGED <<jobs, pc, driver, popped, locals, max_drivers, lock, response, solver, hist, more>>

\* lines 148-156: with self.lock: quit every idle driver, each in its own
\* try/except, then clear the list
shutdown ==
  /\ lock = None
  /\ Len(shutdowns) < MaxShutdowns
  /\ shutdowns' = Append(shutdowns, Range(available_drivers))
  /\ \E raising \in SUBSET Range(available_drivers) :
       /\ handles' = [h \in H |-> IF h \in Range(available_drivers)
                                  THEN [handles[h] EXCEPT !.state = "quit"]
                                  ELSE handles[h]]
       /\ available_drivers' = << >>
  /\ UNCHANGED <<jobs, pc, driver, popped, locals, max_drivers, lock, response, solver, hist, more>>

\* ------------------------------------------------------------ run_automation, the try block
poolFrame == <<max_drivers, available_drivers, lock, shutdowns>>

\* an exception reaches the handler of line 861
Raise(j) == Goto(j, "except") /\ Note(j, "raised", TRUE)

\* lines 144-148
ra_try(j) ==
  /\ pc[j] = "prelude"
  /\ Goto(j, "get_driver")
  /\ UNCHANGED <<jobs, driver, popped, locals, poolVars, response, solver, hist, more>>

\* lines 150-164: driver.get(site), three attempts, the last error re-raised
ra_open_site(j) ==
  /\ pc[j] = "open_site"
  /\ \E ok \in Outcomes(driver[j]) :
       IF ok
       THEN /\ handles' = [handles EXCEPT ![driver[j]].page = "site",
                                          ![driver[j]].cookies = TRUE]
            /\ Goto(j, "fill_form")
            /\ UNCHANGED hist
       ELSE Raise(j) /\ UNCHANGED handles
  /\ UNCHANGED <<jobs, driver, popped, locals, poolFrame, response, solver, more>>

\* lines 165-293: pop-up, regional mode, year, district, tahsil, village,
\* property number; each stage re-raises its error
ra_fill_form(j) ==
  /\ pc[j] = "fill_form"
  /\ \E ok \in Outcomes(driver[j]) :
       IF ok THEN Goto(j, "captcha") /\ UNCHANGED hist ELSE Raise(j)
  /\ UNCHANGED <<jobs, driver, popped, locals, poolVars, response, solver, more>>

\* lines 295-310: captcha_result = solve_and_submit_captcha(driver, property_no, 5)
ra_captcha(j) ==
  /\ pc[j] = "captcha"
  /\ \E r \in IF Alive(driver[j]) THEN {"True", "NO_RECORDS", "False", "raise"}
                                  ELSE {"raise"} :
       CASE r = "True"       -> Goto(j, "count") /\ UNCHANGED hist
         [] r = "NO_RECORDS" -> Goto(j, "nr_status") /\ Note(j, "captcha", r)
         [] r = "False"      -> Goto(j, "cf_status") /\ Note(j, "captcha", r)
         [] r = "raise"      -> Raise(j)
  /\ UNCHANGED <<jobs, driver, popped, locals, poolVars, response, solver, more>>

\* a write of one field of the job record, then on to the next line;
\* jobs[job_id] of a record that was removed is a KeyError, which reaches
\* the handler of line 861
Write(j, at, field, value, next) ==
  /\ pc[j] = at
  /\ IF Present(j)
     THEN SetField(j, field, value) /\ Goto(j, next) /\ UNCHANGED hist
     ELSE Raise(j) /\ UNCHANGED jobs
  /\ UNCHANGED <<driver, popped, locals, poolVars, response, solver, more>>

\* driver.save_screenshot(...) followed by return; an error reaches line 861
Screenshot(j, at) ==
  /\ pc[j] = at
  /\ \E ok \in Outcomes(driver[j]) :
       IF ok THEN Goto(j, "finally") /\ UNCHANGED hist ELSE Raise(j)
  /\ UNCHANGED <<jobs, driver, popped, locals, poolVars, response, solver, more>>

\* the branch goes on to a screenshot, as the branch of line 304 does
ra_no_records_then_screenshot(j) ==
  \/ Write(j, "nr_status", "status", "completed", "nr_message")
  \/ Write(j, "nr_message", "message", "No records found for the given criteria", "cf_shot")

\* the no-records result treated as a failure
ra_no_records_as_failure(j) ==
  \/ Write(j, "nr_status", "status", "failed", "nr_message")
  \/ Write(j, "nr_message", "error", "No records found for the given criteria", "finally")

\* lines 299-303
ra_no_records(j) ==
  \/ Write(j, "nr_status", "status", "completed", "nr_message")
  \/ Write(j, "nr_message", "message", "No records found for the given criteria", "finally")

\* the run goes on to the results after the failure was recorded
ra_captcha_failed_goes_on(j) ==
  \/ Write(j, "cf_status", "status", "failed", "cf_error")
  \/ Write(j, "cf_error", "error", "Failed to solve CAPTCHA after multiple attempts", "count")

\* lines 304-310
ra_captcha_failed(j) ==
  \/ Write(j, "cf_status", "status", "failed", "cf_error")
  \/ Write(j, "cf_error", "error", "Failed to solve CAPTCHA after multiple attempts", "cf_shot")
  \/ Screenshot(j, "cf_shot")

\* lines 319-327: the IndexII buttons of the first page are counted; an
\* exception, the KeyError of a removed record included, goes to line 336
ra_count(j) ==
  /\ pc[j] = "count"
  /\ \E ok \in Outcomes(driver[j]) :
       IF ok /\ Present(j)
       THEN \E n \in 0..MaxDocs :
              /\ SetField(j, "total_documents", n)
              /\ Goto(j, IF n = 0 THEN "zero_check" ELSE "estimate")
       ELSE Goto(j, "lf_status") /\ UNCHANGED jobs
  /\ UNCHANGED <<driver, popped, locals, poolVars, response, solver, hist, more>>

\* lines 327-335 and 380-383: nothing to download; line 329 reads
\* driver.page_source and, when the page says "No Records Found", the record
\* is written as at lines 300-301
ra_no_documents(j) ==
  \/ /\ pc[j] = "zero_check"
     /\ \E ok \in Outcomes(driver[j]) :
          IF ok
          THEN \E no_records \in BOOLEAN :
                 Goto(j, IF no_records THEN "nr_status" ELSE "zero_status")
          ELSE Goto(j, "lf_status")
     /\ UNCHANGED <<jobs, driver, popped, locals, poolVars, response, solver, hist, more>>
  \/ Write(j, "zero_status", "status", "completed", "zero_message")
  \/ Write(j, "zero_message", "message", "Search completed but no documents found for download",
           "finally")

\* lines 336-341
ra_links_failed(j) ==
  \/ Write(j, "lf_status", "status", "failed", "lf_error")
  \/ Write(j, "lf_error", "error", "Failed to find document links", "lf_shot")
  \/ Screenshot(j, "lf_shot")

\* lines 343-392: the counters are initialised and the total is estimated
\* (counter, pagination, first page; after an error the fallback of line
\* 389, whose own errors, the KeyError of a removed record included, reach
\* line 861)
ra_estimate(j) ==
  /\ pc[j] = "estimate"
  /\ successfully_downloaded' = [successfully_downloaded EXCEPT ![j] = 0]
  /\ documents_processed' = [documents_processed EXCEPT ![j] = 0]
  /\ \E r \in IF Alive(driver[j]) /\ Present(j) THEN {"normal", "fallback", "raise"}
                                                  ELSE {"raise"} :
       IF r = "raise"
       THEN /\ Raise(j)
            /\ total_documents_found' = [total_documents_found EXCEPT ![j] = 0]
            /\ UNCHANGED jobs
       ELSE \E m \in 0..MaxDocs :
              /\ total_documents_found' = [total_documents_found EXCEPT ![j] = m]
              /\ SetField(j, "total_documents", m)
              /\ Goto(j, IF m = 0 /\ r = "normal" THEN "zero_status" ELSE "loop")
              /\ UNCHANGED hist
  /\ UNCHANGED <<driver, popped, index_buttons, attempt, poolVars, response, solver, more>>

\* lines 394-847 as one step: the documents of the result set are clicked, each
\* click attempt that succeeds raises successfully_downloaded and
\* downloaded_documents; the loop ends normally, or an exception leaves it
\* (no new tab within 15 s, line 461; a failed browser call; or the restart of
\* lines 566-577, which quits the driver and then raises)
ra_traverse(j) ==
  /\ pc[j] = "loop"
  /\ \E r \in IF Alive(driver[j]) THEN {"done", "stuck", "no_tab", "raise", "restart"}
                                  ELSE {"done", "raise"} :
     \E d \in IF Alive(driver[j]) THEN 0..(max_attempts * total_documents_found[j]) ELSE {0} :
       /\ successfully_downloaded' = [successfully_downloaded EXCEPT ![j] = d]
       /\ IF d > 0 /\ Present(j) THEN SetField(j, "downloaded_documents", d)
                                   ELSE UNCHANGED jobs
       /\ CASE r = "done"    -> Goto(j, "final") /\ UNCHANGED <<handles, hist>>
            [] r = "stuck"   -> /\ SetHandle(driver[j], "tabs", 2)
                                /\ Goto(j, "final")
                                /\ UNCHANGED hist
            [] r = "no_tab"  -> /\ SetHandle(driver[j], "pendingTab", TRUE)
                                /\ Raise(j)
            [] r = "raise"   -> Raise(j) /\ UNCHANGED handles
            [] r = "restart" -> /\ QuitHandle(driver[j])
                                /\ Goto(j, "except")
                                /\ hist' = [hist EXCEPT ![j].raised = TRUE, ![j].quits = @ + 1]
  /\ UNCHANGED <<driver, popped, documents_processed, total_documents_found,
                 index_buttons, attempt, poolFrame, response, solver, more>>

\* lines 395-416: while documents_processed < total_documents_found: wait for
\* the buttons of the page; none, or an error, breaks the loop; the
\* iterations that reach line 419 are counted in hist
ra_loop(j) ==
  /\ pc[j] = "loop"
  /\ IF documents_processed[j] < total_documents_found[j]
     THEN \E ok \in Outcomes(driver[j]) :
            IF ok
            THEN \E n \in 1..MaxDocs :
                   /\ index_buttons' = [index_buttons EXCEPT ![j] = n]
                   /\ attempt' = [attempt EXCEPT ![j] = 0]
                   /\ Note(j, "iterations", hist[j].iterations + 1)
                   /\ Goto(j, "document")
            ELSE Goto(j, "final") /\ UNCHANGED <<index_buttons, attempt, hist>>
     ELSE Goto(j, "final") /\ UNCHANGED <<index_buttons, attempt, hist>>
  /\ UNCHANGED <<jobs, driver, popped, documents_processed, successfully_downloaded,
                 total_documents_found, poolVars, response, solver, more>>

\* the end of one attempt without the count of line 580
NextAttempt_uncounted(j, leave) ==
  IF leave \/ attempt[j] + 1 >= max_attempts
  THEN /\ attempt' = [attempt EXCEPT ![j] = 0]
       /\ index_buttons' = [index_buttons EXCEPT ![j] = @ - 1]
       /\ Goto(j, IF index_buttons[j] = 1 THEN "paginate" ELSE "document")
       /\ UNCHANGED documents_processed
  ELSE /\ attempt' = [attempt EXCEPT ![j] = @ + 1]
       /\ Goto(j, "document")
       /\ UNCHANGED <<documents_processed, index_buttons>>

\* the end of one attempt: lines 427 and 579-580
NextAttempt(j, leave) ==
  IF leave \/ attempt[j] + 1 >= max_attempts
  THEN /\ attempt' = [attempt EXCEPT ![j] = 0]
       /\ documents_processed' = [documents_processed EXCEPT ![j] = @ + 1]
       /\ index_buttons' = [index_buttons EXCEPT ![j] = @ - 1]
       /\ Goto(j, IF index_buttons[j] = 1 THEN "paginate" ELSE "document")
  ELSE /\ attempt' = [attempt EXCEPT ![j] = @ + 1]
       /\ Goto(j, "document")
       /\ UNCHANGED <<documents_processed, index_buttons>>

\* the file an attempt writes: Document_<document_number>.pdf (line 501) or,
\* when printing failed, Document_<document_number>.png (line 530), with
\* document_number = documents_processed + 1 (line 420)
Saved(j, ext) ==
  /\ successfully_downloaded' = [successfully_downloaded EXCEPT ![j] = @ + 1]
  /\ IF Present(j) THEN SetField(j, "downloaded_documents", successfully_downloaded[j] + 1)
                   ELSE UNCHANGED jobs
  /\ hist' = [hist EXCEPT ![j].files = @ \cup {<<documents_processed[j] + 1, ext>>}]

\* lines 427-577, one attempt on one document: click, wait for the new tab,
\* save the PDF or the screenshot; finally close the tabs. Nothing leaves
\* the loop of line 427 after a file was saved.
ra_document(j) ==
  /\ pc[j] = "document"
  /\ \E r \in IF Alive(driver[j])
              THEN {"saved_pdf", "saved_png", "save_failed", "gone", "no_tab", "raise",
                    "stuck", "restart"}
              ELSE {"raise"} :
       CASE r = "saved_pdf" ->
              /\ Saved(j, "pdf")
              /\ NextAttempt(j, FALSE)
              /\ UNCHANGED handles
         [] r = "saved_png" ->
              /\ Saved(j, "png")
              /\ NextAttempt(j, FALSE)
              /\ UNCHANGED handles
         [] r = "save_failed" ->
              /\ NextAttempt(j, FALSE)
              /\ UNCHANGED <<jobs, successfully_downloaded, handles, hist>>
         [] r = "gone" ->
              /\ NextAttempt(j, TRUE)
              /\ UNCHANGED <<jobs, successfully_downloaded, handles, hist>>
         [] r = "no_tab" ->
              /\ SetHandle(driver[j], "pendingTab", TRUE)
              /\ Raise(j)
              /\ UNCHANGED <<jobs, successfully_downloaded, documents_processed,
                             index_buttons, attempt>>
         [] r = "raise" ->
              /\ Raise(j)
              /\ UNCHANGED <<jobs, successfully_downloaded, documents_processed,
                             index_buttons, attempt, handles>>
         [] r = "stuck" ->
              /\ SetHandle(driver[j], "tabs", 2)
              /\ NextAttempt(j, FALSE)
              /\ UNCHANGED <<jobs, successfully_downloaded, hist>>
         [] r = "restart" ->
              /\ QuitHandle(driver[j])
              /\ Goto(j, "except")
              /\ hist' = [hist EXCEPT ![j].raised = TRUE, ![j].quits = @ + 1]
              /\ UNCHANGED <<jobs, successfully_downloaded, documents_processed,
                             index_buttons, attempt>>
  /\ UNCHANGED <<driver, popped, total_documents_found, poolFrame, response, solver, more>>

\* lines 582-847: a link to the next page is looked for and clicked; none, or
\* an error, breaks the loop
ra_paginate(j) ==
  /\ pc[j] = "paginate"
  /\ IF documents_processed[j] < total_documents_found[j]
     THEN \E found \in Outcomes(driver[j]) : Goto(j, IF found THEN "loop" ELSE "final")
     ELSE Goto(j, "loop")
  /\ UNCHANGED <<jobs, driver, popped, locals, poolVars, response, solver, hist, more>>

\* the status written before the total is revised
ra_complete_status_first(j) ==
  \/ Write(j, "final", "status", "completed", "done_status")
  \/ /\ pc[j] = "done_status"
     /\ IF successfully_downloaded[j] > total_documents_found[j]
        THEN SetField(j, "total_documents", successfully_downloaded[j])
        ELSE UNCHANGED jobs
     /\ total_documents_found' = [total_documents_found EXCEPT ![j] = 0]
     /\ successfully_downloaded' = [successfully_downloaded EXCEPT ![j] = 0]
     /\ documents_processed' = [documents_processed EXCEPT ![j] = 0]
     /\ Goto(j, "done_message")
     /\ UNCHANGED <<driver, popped, index_buttons, attempt, poolVars, response, solver, hist, more>>
  \/ Write(j, "done_message", "message", "Job completed successfully", "finally")

\* lines 849-859; the counters are not read after line 858; the write of
\* line 855 to a record that was removed is a KeyError
ra_complete(j) ==
  \/ /\ pc[j] = "final"
     /\ IF successfully_downloaded[j] > total_documents_found[j]
        THEN IF Present(j)
             THEN /\ SetField(j, "total_documents", successfully_downloaded[j])
                  /\ Goto(j, "done_status")
                  /\ UNCHANGED hist
             ELSE Raise(j) /\ UNCHANGED jobs
        ELSE Goto(j, "done_status") /\ UNCHANGED <<jobs, hist>>
     /\ total_documents_found' = [total_documents_found EXCEPT ![j] = 0]
     /\ successfully_downloaded' = [successfully_downloaded EXCEPT ![j] = 0]
     /\ documents_processed' = [documents_processed EXCEPT ![j] = 0]
     /\ UNCHANGED <<driver, popped, index_buttons, attempt, poolVars, response, solver, more>>
  \/ Write(j, "done_status", "status", "completed", "done_message")
  \/ Write(j, "done_message", "message", "Job completed successfully", "finally")

\* the handler of line 861 writing through a record it makes anew
ra_except_setdefault(j) ==
  \/ /\ pc[j] = "except"
     /\ SetField(j, "status", "failed")
     /\ store' = [store EXCEPT !.deleted = @ \ {j}]
     /\ total_documents_found' = [total_documents_found EXCEPT ![j] = 0]
     /\ successfully_downloaded' = [successfully_downloaded EXCEPT ![j] = 0]
     /\ documents_processed' = [documents_processed EXCEPT ![j] = 0]
     /\ Goto(j, "exc_error")
     /\ UNCHANGED <<driver, popped, index_buttons, attempt, poolVars, response, solver, hist,
                    engine, sa, form, docs>>
  \/ /\ pc[j] = "exc_error"
     /\ SetField(j, "error", "Automation failed")
     /\ store' = [store EXCEPT !.deleted = @ \ {j}]
     /\ Goto(j, "finally")
     /\ UNCHANGED <<driver, popped, locals, poolVars, response, solver, hist,
                    engine, sa, form, docs>>

\* lines 861-875; the counters are not read in the handler.  The writes of
\* lines 874 and 875 are not guarded: for a record that was removed
\* jobs[job_id] is a KeyError inside the handler, the finally block runs
\* and the exception leaves the function.
ra_except(j) ==
  \/ /\ pc[j] = "except"
     /\ IF Present(j)
        THEN SetField(j, "status", "failed") /\ Goto(j, "exc_error") /\ UNCHANGED hist
        ELSE Goto(j, "finally") /\ Note(j, "uncaught", TRUE) /\ UNCHANGED jobs
     /\ total_documents_found' = [total_documents_found EXCEPT ![j] = 0]
     /\ successfully_downloaded' = [successfully_downloaded EXCEPT ![j] = 0]
     /\ documents_processed' = [documents_processed EXCEPT ![j] = 0]
     /\ UNCHANGED <<driver, popped, index_buttons, attempt, poolVars, response, solver, more>>
  \/ /\ pc[j] = "exc_error"
     /\ IF Present(j)
        THEN SetField(j, "error", "Automation failed") /\ UNCHANGED hist
        ELSE Note(j, "uncaught", TRUE) /\ UNCHANGED jobs
     /\ Goto(j, "finally")
     /\ UNCHANGED <<driver, popped, locals, poolVars, response, solver, more>>

\* lines 877-892: if driver: close the extra tabs, driver.get("about:blank");
\* an error goes to the handler of line 898
ra_finally(j) ==
  \/ /\ pc[j] = "finally"
     /\ IF driver[j] = None
        THEN Exit(j) /\ hist' = [hist EXCEPT ![j] = Returned(@)]
        ELSE Goto(j, "f_tabs") /\ UNCHANGED <<driver, hist>>
     /\ UNCHANGED <<jobs, popped, locals, poolVars, response, solver, more>>
  \/ /\ pc[j] = "f_tabs"
     /\ \E ok \in Outcomes(driver[j]) :
          IF ok THEN SetHandle(driver[j], "tabs", 1) /\ Goto(j, "f_blank")
                ELSE UNCHANGED handles /\ Goto(j, "f_quit")
     /\ UNCHANGED <<jobs, driver, popped, locals, poolFrame, response, solver, hist, more>>
  \/ /\ pc[j] = "f_blank"
     /\ \E ok \in Outcomes(driver[j]) :
          IF ok THEN SetHandle(driver[j], "page", "blank") /\ Goto(j, "rd_cookies")
                ELSE UNCHANGED handles /\ Goto(j, "f_quit")
     /\ UNCHANGED <<jobs, driver, popped, locals, poolFrame, response, solver, hist, more>>

\* the cleanup without line 897
ra_after_return_no_rmdir(j) ==
  /\ pc[j] = "rmdir"
  /\ Exit(j)
  /\ hist' = [hist EXCEPT ![j] = Returned(@)]
  /\ UNCHANGED <<jobs, popped, locals, poolVars, response, solver, more>>

\* lines 895-897: after return_driver has returned, os.rmdir("__pycache__");
\* an OSError goes to the handler of line 898
ra_after_return(j) ==
  /\ pc[j] = "rmdir"
  /\ \E ok \in BOOLEAN :
       IF ok THEN Exit(j) /\ hist' = [hist EXCEPT ![j] = Returned(@)]
             ELSE Goto(j, "f_quit") /\ UNCHANGED <<driver, hist>>
  /\ UNCHANGED <<jobs, popped, locals, poolVars, response, solver, more>>

\* lines 898-905: except Exception: try: driver.quit() except: log
ra_cleanup_error(j) ==
  /\ pc[j] = "f_quit"
  /\ QuitHandle(driver[j])
  /\ hist' = [hist EXCEPT ![j] = Returned([@ EXCEPT !.quits = @ + 1])]
  /\ Exit(j)
  /\ UNCHANGED <<jobs, popped, locals, poolFrame, response, solver, more>>

NextTry ==
  \/ \E j \in J :
       \/ download_documents(j)
       \/ ra_running(j)
       \/ ra_makedirs(j)
       \/ ra_try(j)
       \/ get_driver_lock(j)
       \/ get_driver_tabs(j)
       \/ get_driver_reset(j)
       \/ get_driver_create(j)
       \/ ra_open_site(j)
       \/ ra_fill_form(j)
       \/ ra_captcha(j)
       \/ ra_no_records(j)
       \/ ra_captcha_failed(j)
       \/ ra_count(j)
       \/ ra_no_documents(j)
       \/ ra_links_failed(j)
       \/ ra_estimate(j)
       \/ ra_traverse(j)
       \/ ra_complete(j)
       \/ ra_except(j)
       \/ ra_finally(j)
       \/ return_driver_cookies(j)
       \/ return_driver_tabs(j)
       \/ return_driver_blank(j)
       \/ return_driver_lock(j)
       \/ return_driver_full(j)
       \/ return_driver_except(j)
       \/ ra_after_return(j)
       \/ ra_cleanup_error(j)
  \/ \E h \in H : late_tab(h)
  \/ shutdown

SpecTry == Init /\ [][NextTry]_vars

Next ==
  \E j \in J :
    \/ download_documents(j)
    \/ job_status(j)
    \/ ra_running(j)
    \/ ra_makedirs(j)
    \/ ra_processed_pages_loop(j)

Spec == Init /\ [][Next]_vars

\* One request, the traversal of lines 394-847 step by step, and a status
\* reader. As in SpecTry, lines 109-143 are left out. The pool is empty when
\* the only job asks for a driver, so get_driver constructs one.
Solo == {1}

NextJob ==
  \/ \E j \in Solo :
       \/ download_documents(j)
       \/ ra_running(j)
       \/ ra_makedirs(j)
       \/ ra_try(j)
       \/ get_driver_lock(j)
       \/ get_driver_create(j)
       \/ ra_open_site(j)
       \/ ra_fill_form(j)
       \/ ra_captcha(j)
       \/ ra_no_records(j)
       \/ ra_captcha_failed(j)
       \/ ra_count(j)
       \/ ra_no_documents(j)
       \/ ra_links_failed(j)
       \/ ra_estimate(j)
       \/ ra_loop(j)
       \/ ra_document(j)
       \/ ra_paginate(j)
       \/ ra_complete(j)
       \/ ra_except(j)
       \/ ra_finally(j)
       \/ return_driver_cookies(j)
       \/ return_driver_tabs(j)
       \/ return_driver_blank(j)
       \/ return_driver_lock(j)
       \/ return_driver_except(j)
       \/ ra_after_return(j)
       \/ ra_cleanup_error(j)
  \/ \E j \in J : job_status(j)

SpecJob == Init /\ [][NextJob]_vars

\* The loop of automation.py:395-847 alone, entered as lines 343-392 leave
\* the run: the record 'running' with the total found, a live driver on the
\* results page, documents_processed = 0 and total_documents_found of up to
\* MaxTotal documents, one to a page.
InitLoop ==
  /\ \E n \in 0..MaxTotal :
       /\ jobs = (1 :> [status |-> "running", error |-> "", message |-> "",
                        total_documents |-> n, downloaded_documents |-> 0])
       /\ total_documents_found = [j \in J |-> IF j = 1 THEN n ELSE 0]
  /\ pc = [j \in J |-> IF j = 1 THEN "loop" ELSE "none"]
  /\ driver = [j \in J |-> IF j = 1 THEN 1 ELSE None]
  /\ popped = [j \in J |-> None]
  /\ documents_processed = [j \in J |-> 0]
  /\ successfully_downloaded = [j \in J |-> 0]
  /\ index_buttons = [j \in J |-> 0]
  /\ attempt = [j \in J |-> 0]
  /\ max_drivers \in 1..MaxPool
  /\ available_drivers = << >>
  /\ lock = None
  /\ handles = [h \in H |-> IF h = 1 THEN [Fresh EXCEPT !.page = "site"] ELSE NoHandle]
  /\ shutdowns = << >>
  /\ response = NoResponse
  /\ hist = [j \in J |-> IF j = 1 THEN [NoHist EXCEPT !.obtained = TRUE] ELSE NoHist]
  /\ solver = NoSolver /\ engine = NoEngine /\ store = NoStore /\ sa = NoSa
  /\ form = NoForm /\ docs = NoDocs

NextLoop ==
  \E j \in Solo :
    \/ ra_loop(j)
    \/ ra_document(j)
    \/ ra_paginate(j)

SpecLoop == InitLoop /\ [][NextLoop]_vars

\* every step of the loop is taken at some time: each is a wait with a
\* timeout or a browser call that returns or raises
SpecLoopLive == SpecLoop /\ WF_vars(NextLoop)

\* ------------------------------------------------------------ captcha_solver.py
\* get_captcha_hash (lines 106-113): the md5 of the file, "" (here 0) when
\* the file cannot be read; different images have different digests
get_captcha_hash(image, readable) == IF readable THEN image ELSE 0

\* everything but the call of solve_and_submit_captcha
rest == <<jobs, pc, driver, popped, locals, poolVars, response, hist, more>>

\* return <r>, or an exception that leaves the function
Return(s, r) == [s EXCEPT !.at = "done", !.result = r]

\* `continue`, or the end of the body of the loop of line 134: the next
\* iteration, or line 298 after the last one
NextIteration(s) ==
  IF s.attempts < s.max_attempts
  THEN [s EXCEPT !.attempts = @ + 1, !.at = "attempt", !.captcha_hash = 0,
                 !.captured = 0, !.ok1 = FALSE, !.ok2 = FALSE, !.clicked = FALSE]
  ELSE [s EXCEPT !.at = "final", !.captcha_hash = 0, !.captured = 0,
                 !.ok1 = FALSE, !.ok2 = FALSE, !.clicked = FALSE]

\* the attempt ends without a click
Skip(s) == NextIteration([s EXCEPT !.other = @ + 1])

\* an exception inside the try of line 135 reaches the handler of line 286
Handler(s) == [s EXCEPT !.at = "handler"]

\* the checks for results: the links (return True), then the no-records
\* message (return "NO_RECORDS"), else `otherwise`
Results(s, otherwise) ==
  CASE s.page = "links"      -> Return(s, "True")
    [] s.page = "no_records" -> Return(s, "NO_RECORDS")
    [] OTHER                 -> otherwise

\* lines 118-131: the screenshot and the first look at the page, outside
\* any try; then the loop of line 134
sc_initial ==
  /\ solver.at = "init"
  /\ \E ok \in BOOLEAN :
       solver' = IF ok THEN Results(solver, NextIteration(solver))
                       ELSE Return(solver, "raise")
  /\ UNCHANGED rest

\* lines 135-154: the CAPTCHA element is looked for; without one the page
\* is checked for results and the attempt ends
sc_find_captcha ==
  /\ solver.at = "attempt"
  /\ \E ok \in BOOLEAN :
       solver' = IF ~ok THEN Handler(solver)
                 ELSE IF solver.page = "captcha"
                      THEN [solver EXCEPT !.at = "capture"]
                      ELSE Results(solver, Skip(solver))
  /\ UNCHANGED rest

\* lines 156-160: the element is captured to a file and the file is hashed
sc_capture ==
  /\ solver.at = "capture"
  /\ \E ok \in BOOLEAN, readable \in BOOLEAN :
       solver' = IF ~ok \/ solver.page # "captcha" THEN Handler(solver)
                 ELSE [solver EXCEPT !.at = "solve", !.captured = solver.image,
                         !.captcha_hash = get_captcha_hash(solver.image, readable)]
  /\ UNCHANGED rest

\* lines 162-170: the OCR; an empty solution ends the attempt
sc_solve ==
  /\ solver.at = "solve"
  /\ \E captcha_text \in {"", "text", "raise"} :
       solver' = CASE captcha_text = ""      -> Skip(solver)
                   [] captcha_text = "text"  -> [solver EXCEPT !.at = "check1"]
                   [] captcha_text = "raise" -> Handler(solver)
  /\ UNCHANGED rest
\* the attempt is given up because a re-check saw another image: `continue`,
\* which takes `slots` iterations of the loop (1 in the code)
Abandon(s, slots) ==
  LET a == NextIteration([s EXCEPT !.abandoned = @ + 1])
  IN IF slots = 1 \/ a.at = "final" THEN a ELSE NextIteration(a)

\* a re-check of the fingerprint (lines 173-184 and 201-213): the element is
\* looked for again, captured and hashed; a different hash gives the attempt
\* up; no element, or an exception (logged), lets the attempt go on
Recheck(here, next, ok, slots) ==
  /\ solver.at = here
  /\ \E r \in {"compared", "absent", "raise"}, readable \in BOOLEAN :
       LET current_hash == get_captcha_hash(solver.image, readable)
       IN solver' = IF r = "compared"
                    THEN IF current_hash # solver.captcha_hash
                         THEN Abandon(solver, slots)
                         ELSE [solver EXCEPT !.at = next, ![ok] = TRUE]
                    ELSE [solver EXCEPT !.at = next]
  /\ UNCHANGED rest

\* a rotated image costs two attempts
sc_recheck_before_enter_twice == Recheck("check1", "enter", "ok1", 2)

\* lines 172-184
sc_recheck_before_enter == Recheck("check1", "enter", "ok1", 1)

\* lines 186-198: the property number and the solution are typed in; an
\* error ends the attempt
sc_enter ==
  /\ solver.at = "enter"
  /\ \E ok \in BOOLEAN :
       solver' = IF ok THEN [solver EXCEPT !.at = "check2"] ELSE Skip(solver)
  /\ UNCHANGED rest

\* lines 200-213
sc_recheck_before_click == Recheck("check2", "click", "ok2", 1)

\* lines 215-233: the search button is clicked; no button, or an error, ends
\* the attempt. The site answers the submission with the links, with the
\* no-records message, with a new CAPTCHA image, or not at all.
sc_click ==
  /\ solver.at = "click"
  /\ \E r \in {"no_button", "raise", "links", "no_records", "none"}
              \cup (IF solver.image < MaxImages THEN {"rejected"} ELSE {}) :
       solver' =
         IF r \in {"no_button", "raise"} THEN Skip(solver)
         ELSE [solver EXCEPT
                 !.at = "wait",
                 !.clicks = @ + 1,
                 !.clicked = TRUE,
                 !.uncheckedClick = @ \/ ~(solver.ok1 /\ solver.ok2),
                 !.rotatedClick = @ \/ solver.image # solver.captured,
                 !.page = IF r \in {"links", "no_records"} THEN r ELSE @,
                 !.image = IF r = "rejected" THEN @ + 1 ELSE @]
  /\ UNCHANGED rest

\* lines 235-271: up to 30 s the page is polled for results and for a
\* changed CAPTCHA
sc_wait ==
  /\ solver.at = "wait"
  /\ \E ok \in BOOLEAN :
       solver' = IF ok THEN Results(solver, [solver EXCEPT !.at = "after_wait"])
                       ELSE Handler(solver)
  /\ UNCHANGED rest

\* after the wait the same attempt submits again, once more than allowed
sc_after_wait_resubmits ==
  /\ solver.at = "after_wait"
  /\ solver' = Results(solver, IF solver.clicks <= solver.max_attempts
                                THEN [solver EXCEPT !.at = "click"]
                                ELSE NextIteration(solver))
  /\ UNCHANGED rest

\* lines 273-284: one more look at the page, then the next attempt
sc_after_wait ==
  /\ solver.at = "after_wait"
  /\ \E ok \in BOOLEAN :
       solver' = IF ok THEN Results(solver, NextIteration(solver)) ELSE Handler(solver)
  /\ UNCHANGED rest

\* lines 286-296: the handler of the attempt: a screenshot and a look for
\* the links, both outside any try; then the next attempt
sc_handler ==
  /\ solver.at = "handler"
  /\ \E ok \in BOOLEAN :
       solver' = IF ~ok THEN Return(solver, "raise")
                 ELSE IF solver.page = "links" THEN Return(solver, "True")
                 ELSE IF solver.clicked THEN NextIteration(solver) ELSE Skip(solver)
  /\ UNCHANGED rest

\* lines 298-310: after the loop, the last look at the page; return False
sc_final ==
  /\ solver.at = "final"
  /\ \E ok \in BOOLEAN :
       solver' = IF ok THEN Results(solver, Return(solver, "False"))
                       ELSE Return(solver, "raise")
  /\ UNCHANGED rest

\* the site replaces the CAPTCHA image while the form is shown
captcha_rotates ==
  /\ solver.at \notin {"idle", "done"}
  /\ solver.page = "captcha"
  /\ solver.image < MaxImages
  /\ solver' = [solver EXCEPT !.image = @ + 1]
  /\ UNCHANGED rest

\* the call solve_and_submit_captcha(driver, property_no, max_attempts) on a
\* page that shows the form, the links, the no-records message or neither
InitCaptcha ==
  /\ InitCommon
  /\ \E m \in 1..MaxCaptchaAttempts, p \in {"captcha", "links", "no_records", "blank"} :
       solver = [NoSolver EXCEPT !.at = "init", !.max_attempts = m, !.page = p]
  /\ engine = NoEngine /\ store = NoStore /\ sa = NoSa
  /\ form = NoForm /\ docs = NoDocs

NextCaptcha ==
  \/ sc_initial
  \/ sc_find_captcha
  \/ sc_capture
  \/ sc_solve
  \/ sc_recheck_before_enter
  \/ sc_enter
  \/ sc_recheck_before_click
  \/ sc_click
  \/ sc_wait
  \/ sc_after_wait
  \/ sc_handler
  \/ sc_final
  \/ captcha_rotates

SpecCaptcha == InitCaptcha /\ [][NextCaptcha]_vars

\* ------------------------------------------------------------ document_processor.py
\* everything but the call of process_all_index_buttons
others == <<jobs, pc, driver, popped, locals, poolVars, response, solver, store, sa, form,
            docs, hist>>

Min(S) == CHOOSE x \in S : \A y \in S : x <= y

\* page_attempts.get(page, 0)
Get(d, k) == IF k \in DOMAIN d THEN d[k] ELSE 0

\* ---- the remote site
\* The pager of the grid shows `width` page numbers at a time: the numbers
\* of the group of the page shown are links, except the page shown itself,
\* which is a span; "..." links lead to the first page of the next group
\* and to the last page of the previous one.  An error page has no pager.
Group(e) == (e.shown - 1) \div e.width

Numbered(e) ==
  IF ~e.buttons THEN {}
  ELSE {p \in 1..e.pages : (p - 1) \div e.width = Group(e) /\ p # e.shown}

Ellipses(e) ==
  IF ~e.buttons THEN {}
  ELSE {p \in 1..e.pages : \/ p = (Group(e) + 1) * e.width + 1
                           \/ Group(e) > 0 /\ p = Group(e) * e.width}

\* the answers of the site to a click on the link of page t, or to the
\* postback __doPostBack('RegistrationGrid','Page$t'): a working site shows
\* page t; when t is beyond the last page it either renders the page shown
\* again or answers with an error page, which has no action elements; a
\* stuck site renders the same page whatever is asked; an erratic site does
\* any of these
Respond(e, t) ==
  LET same == [e EXCEPT !.buttons = TRUE]
      error == [e EXCEPT !.buttons = FALSE]
      working == IF t \in 1..e.pages THEN {[e EXCEPT !.shown = t, !.buttons = TRUE]}
                 ELSE IF e.beyond = "rerenders" THEN {same} ELSE {error}
  IN CASE e.kind = "working" -> working
       [] e.kind = "stuck"   -> {same}
       [] OTHER              -> working \cup {same, error}

\* driver.refresh(): the page is requested again; only an erratic site
\* answers differently from before
Refresh(e) ==
  IF e.kind = "erratic" THEN {[e EXCEPT !.buttons = b] : b \in BOOLEAN} ELSE {e}

\* whether a click or a script call raises: only on an erratic site
Clicks(e) == IF e.kind = "erratic" THEN BOOLEAN ELSE {TRUE}

\* get_current_page_number (lines 1189-1248): the number in the span of the
\* pager, None when there is no pager or it cannot be read
get_current_page_number(e) ==
  IF ~e.buttons \/ e.pages = 1 THEN {None}
  ELSE IF e.kind = "erratic" THEN {e.shown, None} ELSE {e.shown}

\* verify_navigation_success (lines 803-866): True when action elements are
\* present; else the page is refreshed once and they are looked for again.
\* The result is the pair of the call's state and its return value.
verify_navigation_success(e) ==
  IF e.buttons THEN {<<e, TRUE>>} ELSE {<<r, r.buttons>> : r \in Refresh(e)}

\* ---- navigate_to_next_page
NavCall(e, caller) ==
  [e EXCEPT !.at = "navigate", !.nav = [NoNav EXCEPT !.at = "start", !.caller = caller]]

NavReturn(e, ret) ==
  [e EXCEPT !.at = e.nav.caller, !.nav.at = "ret", !.nav.ret = ret]

\* lines 351-413: the screenshot and find_elements are inside the outer try
\* (an exception: return False at line 553); the links found are kept in
\* pagination_links; when none is found the page is refreshed and looked at
\* once more, and without links the function returns False (line 413)
nav_find_links ==
  /\ engine.at = "navigate" /\ engine.nav.at = "start"
  /\ \E ok \in BOOLEAN :
       IF ~ok
       THEN engine' = NavReturn([engine EXCEPT !.faulted = TRUE], FALSE)
       ELSE IF Numbered(engine) \cup Ellipses(engine) # {}
       THEN engine' = [engine EXCEPT !.nav.at = "s1", !.nav.links = Numbered(engine),
                                     !.nav.ellipses = Ellipses(engine)]
       ELSE \E r \in Refresh(engine) :
              engine' = IF Numbered(r) \cup Ellipses(r) # {}
                        THEN [r EXCEPT !.nav.at = "s1", !.nav.links = Numbered(r),
                                       !.nav.ellipses = Ellipses(r)]
                        ELSE NavReturn(r, FALSE)
  /\ UNCHANGED others

\* a strategy acts: the click (or the script) raises, which its except
\* clause logs; or the site answers and verify_navigation_success is
\* called: True is returned when it says so, else the next strategy
\* follows.  The answer is a new document: the elements of pagination_links
\* are stale from then on, and reading them raises (lines 424, 463, 497).
Act(e, s, t, next) ==
  LET tried == [e EXCEPT !.nav.tried = Append(@, s)]
      after(v) == IF next = "fail" THEN NavReturn(v, FALSE) ELSE [v EXCEPT !.nav.at = next]
  IN {after(tried) : ok \in Clicks(e) \ {TRUE}}
     \cup {IF v[2] THEN NavReturn([v[1] EXCEPT !.nav.verified = TRUE], TRUE)
                   ELSE after([v[1] EXCEPT !.nav.stale = TRUE])
           : v \in UNION {verify_navigation_success(r) : r \in Respond(tried, t)}}

\* a strategy finds no link to act on
Unavailable(e, s, next) == [e EXCEPT !.nav.skipped = @ \cup {s}, !.nav.at = next]

\* lines 415-447, strategy 1: the link whose text is str(current_page + 1)
nav_strategy1 ==
  /\ engine.at = "navigate" /\ engine.nav.at = "s1"
  /\ LET next_page == engine.current_page + 1
     IN IF ~engine.nav.stale /\ next_page \in engine.nav.links
        THEN engine' \in Act(engine, 1, next_page, "s2")
        ELSE engine' = Unavailable(engine, 1, "s2")
  /\ UNCHANGED others

\* lines 449-486, strategy 2: the first "..." link whose target is above
\* current_page
nav_strategy2 ==
  /\ engine.at = "navigate" /\ engine.nav.at = "s2"
  /\ LET forward == {t \in engine.nav.ellipses : t > engine.current_page}
     IN IF ~engine.nav.stale /\ forward # {}
        THEN engine' \in Act(engine, 2, Min(forward), "s3")
        ELSE engine' = Unavailable(engine, 2, "s3")
  /\ UNCHANGED others

\* lines 488-523, strategy 3: the lowest numbered link above current_page
nav_strategy3 ==
  /\ engine.at = "navigate" /\ engine.nav.at = "s3"
  /\ LET higher_page_links == {p \in engine.nav.links : p > engine.current_page}
     IN IF ~engine.nav.stale /\ higher_page_links # {}
        THEN engine' \in Act(engine, 3, Min(higher_page_links), "s4")
        ELSE engine' = Unavailable(engine, 3, "s4")
  /\ UNCHANGED others

\* lines 525-544, strategy 4: the postback for page current_page + 1 is
\* executed as a script; when it is not verified either, return False
nav_strategy4 ==
  /\ engine.at = "navigate" /\ engine.nav.at = "s4"
  /\ engine' \in Act(engine, 4, engine.current_page + 1, "fail")
  /\ UNCHANGED others

\* ---- process_all_index_buttons
\* an exception leaves the function
Raised(e) == [e EXCEPT !.at = "done", !.result = "raise", !.faulted = TRUE]

\* lines 160-188: the directories, the first screenshot (outside any try),
\* current_page from the pager or 1, the limits and the counters
pab_init ==
  /\ engine.at = "init"
  /\ \E ok \in BOOLEAN, n \in get_current_page_number(engine) :
       engine' = IF ok THEN [engine EXCEPT !.at = "loop",
                                           !.current_page = IF n = None THEN 1 ELSE n]
                       ELSE Raised(engine)
  /\ UNCHANGED others

\* the loop with a limit of attempts that lets one more through
Loop_one_more(ceiling) ==
  /\ engine.at = "loop"
  /\ IF engine.iteration < ceiling
     THEN \E ok \in BOOLEAN :
            LET page == engine.current_page
                n == Get(engine.page_attempts, page) + 1
                e == [engine EXCEPT !.iteration = @ + 1]
                counted == [e EXCEPT !.page_attempts =
                              [p \in DOMAIN @ \cup {page} |-> IF p = page THEN n ELSE @[p]]]
            IN engine' = IF ~ok THEN Raised(e)
                         ELSE IF n > max_attempts_per_page + 1 THEN NavCall(counted, "skipped")
                         ELSE [counted EXCEPT !.at = "process"]
     ELSE engine' = [engine EXCEPT !.at = "summary"]
  /\ UNCHANGED others

\* lines 190-227 with the ceiling as a parameter: while iteration <
\* ceiling: the iteration is counted, a screenshot is taken (outside any
\* try), the attempts of current_page are counted; above
\* max_attempts_per_page the page is not processed and
\* navigate_to_next_page is called at once
Loop(ceiling) ==
  /\ engine.at = "loop"
  /\ IF engine.iteration < ceiling
     THEN \E ok \in BOOLEAN :
            LET page == engine.current_page
                n == Get(engine.page_attempts, page) + 1
                e == [engine EXCEPT !.iteration = @ + 1]
                counted == [e EXCEPT !.page_attempts =
                              [p \in DOMAIN @ \cup {page} |-> IF p = page THEN n ELSE @[p]]]
            IN engine' = IF ~ok THEN Raised(e)
                         ELSE IF n > max_attempts_per_page THEN NavCall(counted, "skipped")
                         ELSE [counted EXCEPT !.at = "process"]
     ELSE engine' = [engine EXCEPT !.at = "summary"]
  /\ UNCHANGED others

\* a ceiling that is tested one iteration late
pab_loop_late == Loop(max_pages + 1)

\* line 190: while iteration < max_pages
pab_loop == Loop(max_pages)

\* new_page = get_current_page_number(driver) after a navigation that
\* returned True (lines 207-218, 272-287): another number is taken over;
\* the same number, or none, makes current_page + 1
Advance(e, n) ==
  [e EXCEPT !.current_page = IF n # None /\ n # @ THEN n ELSE @ + 1,
            !.forced = IF n = e.current_page THEN @ + 1 ELSE @,
            !.consecutive_failures = 0, !.at = "loop"]

\* lines 205-227: the navigation of a page that is not processed again
pab_after_skip ==
  /\ engine.at = "skipped"
  /\ IF engine.nav.ret
     THEN \E n \in get_current_page_number(engine) : engine' = Advance(engine, n)
     ELSE engine' = [engine EXCEPT !.at = "summary"]
  /\ UNCHANGED others

\* lines 230-262: process_page_documents works on the page the browser
\* shows (each page of the site has one action element; without action
\* elements it returns zeros; `runs` counts the calls per value of
\* current_page), current_page is added to processed_pages,
\* documents_processed is raised, a screenshot is taken (outside any try)
\* and navigate_to_next_page is called.  documents_downloaded, which
\* decides nothing, is left out.  The function is called without job_id
\* (nothing in the repository passes one): lines 251-259 are skipped.
pab_process ==
  /\ engine.at = "process"
  /\ LET n == IF engine.buttons THEN 1 ELSE 0
     IN \E ok \in BOOLEAN :
          LET e == [engine EXCEPT
                      !.processed_pages = @ \cup {engine.current_page},
                      !.runs = [p \in DOMAIN @ \cup {engine.current_page} |->
                                  IF p = engine.current_page
                                  THEN Get(@, p) + 1 ELSE @[p]],
                      !.documents_processed = @ + n,
                      !.counted = IF n = 0 THEN @
                                  ELSE [@ EXCEPT ![engine.shown] = @ + n],
                      !.reprocessed = @ \/ (n > 0 /\ engine.current_page
                                                       \in engine.processed_pages)]
          IN engine' = IF ok THEN NavCall(e, "navigated") ELSE Raised(e)
  /\ UNCHANGED others

\* a failed navigation that goes back to the loop, without the retry
pab_after_navigate_no_retry ==
  /\ engine.at = "navigated"
  /\ IF engine.nav.ret
     THEN \E n \in get_current_page_number(engine) : engine' = Advance(engine, n)
     ELSE engine' = [engine EXCEPT
                       !.consecutive_failures = @ + 1,
                       !.at = IF engine.consecutive_failures + 1 >= max_navigation_failures
                              THEN "summary" ELSE "loop"]
  /\ UNCHANGED others

\* lines 267-300: after True the failures are reset and current_page is
\* advanced; after False the failure is counted and, below
\* max_navigation_failures, the retry of line 303 follows
pab_after_navigate ==
  /\ engine.at = "navigated"
  /\ IF engine.nav.ret
     THEN \E n \in get_current_page_number(engine) : engine' = Advance(engine, n)
     ELSE engine' = [engine EXCEPT
                       !.consecutive_failures = @ + 1,
                       !.at = IF engine.consecutive_failures + 1 >= max_navigation_failures
                              THEN "summary" ELSE "refresh"]
  /\ UNCHANGED others

\* lines 303-308: driver.refresh() inside try (an exception: break), then
\* navigate_to_next_page once more
pab_refresh ==
  /\ engine.at = "refresh"
  /\ \E ok \in BOOLEAN :
       IF ok THEN \E r \in Refresh(engine) : engine' = NavCall(r, "retried")
       ELSE engine' = [engine EXCEPT !.at = "summary", !.faulted = TRUE]
  /\ UNCHANGED others

\* lines 308-322: after True current_page is what the pager says, the same
\* number included, or current_page + 1 without a pager; after False: break
pab_after_retry ==
  /\ engine.at = "retried"
  /\ IF engine.nav.ret
     THEN \E n \in get_current_page_number(engine) :
            engine' = [engine EXCEPT !.current_page = IF n # None THEN n ELSE @ + 1,
                                     !.consecutive_failures = 0, !.at = "loop"]
     ELSE engine' = [engine EXCEPT !.at = "summary"]
  /\ UNCHANGED others

\* lines 327-337: the summary is built and returned
pab_summary ==
  /\ engine.at = "summary"
  /\ engine' = [engine EXCEPT !.at = "done", !.result = "summary"]
  /\ UNCHANGED others

\* One call of process_all_index_buttons on the first page of a result set
\* of `pages` pages, on a site of each kind.
InitPages ==
  /\ InitCommon
  /\ solver = NoSolver /\ store = NoStore /\ sa = NoSa
  /\ form = NoForm /\ docs = NoDocs
  /\ \E k \in {"working", "stuck", "erratic"}, P \in 1..MaxSitePages,
        w \in 1..MaxSitePages, b \in {"rerenders", "rejects"} :
       /\ w \in {1, P}
       /\ engine = [NoEngine EXCEPT !.at = "init", !.kind = k, !.pages = P, !.width = w,
                                    !.beyond = b, !.shown = 1, !.buttons = TRUE,
                                    !.counted = [p \in 1..P |-> 0]]

NextPages ==
  \/ pab_init
  \/ pab_loop
  \/ pab_after_skip
  \/ pab_process
  \/ pab_after_navigate
  \/ pab_refresh
  \/ pab_after_retry
  \/ pab_summary
  \/ nav_find_links
  \/ nav_strategy1
  \/ nav_strategy2
  \/ nav_strategy3
  \/ nav_strategy4

SpecPages == InitPages /\ [][NextPages]_vars

\* every step of the call is taken at some time: each is a bounded wait or
\* a computation
SpecPagesLive == SpecPages /\ WF_vars(NextPages)

\* ------------------------------------------------------------ app.py, storage
\* everything but the records, the threads of the jobs and the storage
appRest == <<driver, popped, locals, poolVars, solver, engine, sa, form, docs>>

\* the try block of run_automation (lines 146-905) as one step: it ends
\* with the status "completed" or "failed" (lines 300-339, 856, 874); a
\* record that was deleted meanwhile makes the write a KeyError, in the try
\* block and again in the handler of line 874, and the thread ends
ra_ends(j) ==
  /\ pc[j] = "prelude"
  /\ IF Present(j)
     THEN \E s \in {"completed", "failed"} : SetField(j, "status", s)
     ELSE UNCHANGED jobs
  /\ Goto(j, "exit")
  /\ UNCHANGED <<store, response, hist, appRest>>

\* time passes: the record of job j is now older than 86400 seconds
day_passes(j) ==
  /\ Present(j)
  /\ ~store.old[j]
  /\ store' = [store EXCEPT !.old[j] = TRUE]
  /\ UNCHANGED <<jobs, pc, response, hist, appRest>>

\* ---- cleanup_old_jobs, called every hour by start_cleanup_scheduler
\* lines 256-259: current_time is read and the iteration over jobs.items()
\* begins
cleanup_old_jobs_begin ==
  /\ store.sweep.at = "idle"
  /\ store' = [store EXCEPT !.sweep =
                 [at |-> "scan", expired |-> {j \in J : store.old[j]},
                  todo |-> {j \in J : Present(j)},
                  size |-> Cardinality({j \in J : Present(j)}),
                  jobs_to_remove |-> {}]]
  /\ UNCHANGED <<jobs, pc, response, hist, appRest>>

\* lines 259-271, one record: the dict iterator raises RuntimeError when the
\* size of jobs changed since the iteration began (a request created or
\* removed a record), which ends the call (caught at line 285); a record
\* older than 24 hours has its directory removed, if it exists (a failure
\* is logged), and its id is appended to jobs_to_remove
cleanup_old_jobs_scan ==
  /\ store.sweep.at = "scan"
  /\ IF Cardinality({j \in J : Present(j)}) # store.sweep.size
     THEN store' = [store EXCEPT !.sweep.at = "idle"]
     ELSE IF store.sweep.todo = {}
     THEN store' = [store EXCEPT !.sweep.at = "remove"]
     ELSE \E j \in store.sweep.todo, ok \in BOOLEAN :
            LET next == [store EXCEPT !.sweep.todo = @ \ {j}]
            IN store' =
                 IF j \notin store.sweep.expired THEN next
                 ELSE IF store.dir[j] /\ ok
                 THEN [next EXCEPT !.dir[j] = FALSE, !.rmtree[j] = "cleanup_old_jobs",
                                   !.sweep.jobs_to_remove = @ \cup {j}]
                 ELSE [next EXCEPT !.sweep.jobs_to_remove = @ \cup {j}]
  /\ UNCHANGED <<jobs, pc, response, hist, appRest>>

\* lines 274-276, one id: del jobs[job_id]; a record that a request removed
\* meanwhile makes it a KeyError, which ends the call
cleanup_old_jobs_remove ==
  /\ store.sweep.at = "remove"
  /\ IF store.sweep.jobs_to_remove = {}
     THEN store' = [store EXCEPT !.sweep.at = "idle"]
     ELSE \E j \in store.sweep.jobs_to_remove :
            store' = IF Present(j)
                     THEN [store EXCEPT !.deleted = @ \cup {j}, !.swept = @ \cup {j},
                                        !.sweep.jobs_to_remove = @ \ {j}]
                     ELSE [store EXCEPT !.sweep.at = "idle"]
  /\ UNCHANGED <<jobs, pc, response, hist, appRest>>

\* ---- DELETE /api/cleanup_job/<job_id>
\* lines 189-196: an unknown id is answered with 404
cleanup_job_lookup(j) ==
  /\ store.cj.at = "idle"
  /\ store' = [store EXCEPT !.cj =
                 IF Present(j)
                 THEN [NoRequest EXCEPT !.at = "rmtree", !.job_id = j]
                 ELSE [NoRequest EXCEPT !.job_id = j, !.code = 404,
                                        !.message = "Job not found"]]
  /\ UNCHANGED <<jobs, pc, response, hist, appRest>>

\* lines 199-208: the directory is removed if it exists; a failure is
\* answered with 500 and the record stays
cleanup_job_rmtree ==
  /\ store.cj.at = "rmtree"
  /\ \E ok \in BOOLEAN :
       LET j == store.cj.job_id
       IN store' = IF ~store.dir[j] THEN [store EXCEPT !.cj.at = "del"]
                   ELSE IF ok
                   THEN [store EXCEPT !.dir[j] = FALSE, !.rmtree[j] = "cleanup_job",
                                      !.cj.at = "del"]
                   ELSE [store EXCEPT !.cj.at = "idle", !.cj.code = 500,
                                      !.cj.message = "Failed to clean up directory"]
  /\ UNCHANGED <<jobs, pc, response, hist, appRest>>

\* lines 211-217: del jobs[job_id] and the answer; a record that was removed
\* meanwhile makes it a KeyError, which the server answers with 500
cleanup_job_del ==
  /\ store.cj.at = "del"
  /\ LET j == store.cj.job_id
     IN store' = IF Present(j)
                 THEN [store EXCEPT !.deleted = @ \cup {j}, !.cj.at = "idle",
                                    !.cj.code = 200,
                                    !.cj.message = "Job and associated files cleaned up"]
                 ELSE [store EXCEPT !.cj.at = "idle", !.cj.code = 500,
                                    !.cj.message = "KeyError"]
  /\ UNCHANGED <<jobs, pc, response, hist, appRest>>

\* ---- GET /api/download_results/<job_id>
\* lines 143-155: 404 for an unknown id, 400 for a job that is not completed
download_results_lookup(j) ==
  /\ store.dr.at = "idle"
  /\ store' = [store EXCEPT !.dr =
                 IF ~Present(j)
                 THEN [NoRequest EXCEPT !.job_id = j, !.code = 404,
                                        !.message = "Job not found"]
                 ELSE IF jobs[j].status # "completed"
                 THEN [NoRequest EXCEPT !.job_id = j, !.code = 400,
                                        !.message = "Job not completed yet"]
                 ELSE [NoRequest EXCEPT !.at = "exists", !.job_id = j]]
  /\ UNCHANGED <<jobs, pc, response, hist, appRest>>

\* lines 157-185: 404 when the directory of the record does not exist, else
\* the archive of its files
download_results ==
  /\ store.dr.at = "exists"
  /\ store' = [store EXCEPT !.dr.at = "idle",
                 !.dr.code = IF store.dir[store.dr.job_id] THEN 200 ELSE 404,
                 !.dr.message = IF store.dir[store.dr.job_id] THEN "archive"
                                ELSE "Directory not found"]
  /\ UNCHANGED <<jobs, pc, response, hist, appRest>>

\* The requests for one job, its thread (with lines 109-143 left out) and
\* the sweep.
NextApp ==
  \/ \E j \in Solo : \/ download_documents(j)
                     \/ ra_running(j)
                     \/ ra_makedirs(j)
                     \/ ra_ends(j)
                     \/ day_passes(j)
                     \/ cleanup_job_lookup(j)
                     \/ download_results_lookup(j)
                     \/ job_status(j)
  \/ cleanup_old_jobs_begin
  \/ cleanup_old_jobs_scan
  \/ cleanup_old_jobs_remove
  \/ cleanup_job_rmtree
  \/ cleanup_job_del
  \/ download_results

SpecApp == Init /\ [][NextApp]_vars

\* ------------------------------------------------------------ selenium_automation.py
\* everything but the calls of selenium_automation.run_automation
saRest == <<jobs, pc, driver, popped, locals, poolVars, response, solver, engine, store,
            form, docs, hist>>

SaSet(j, r) == sa' = [sa EXCEPT ![j] = r]

\* an exception with text e inside the try of line 259
SaRaise(r, e) == [r EXCEPT !.at = "except", !.exception = e]

\* lines 246-257: the status is "running", the directories are made
sa_running(j) ==
  /\ sa[j].at = "none"
  /\ SaSet(j, [sa[j] EXCEPT !.status = "running", !.at = "chrome"])
  /\ UNCHANGED saRest

\* lines 261-272: the browser is started
sa_chrome(j) ==
  /\ sa[j].at = "chrome"
  /\ \E ok \in BOOLEAN :
       SaSet(j, IF ok THEN [sa[j] EXCEPT !.driver = "live", !.at = "open"]
                      ELSE SaRaise(sa[j], "session not created"))
  /\ UNCHANGED saRest

\* line 277: driver.get(<the site>)
sa_open_website(j) ==
  /\ sa[j].at = "open"
  /\ \E ok \in BOOLEAN :
       SaSet(j, IF ok THEN [sa[j] EXCEPT !.at = "form"]
                      ELSE SaRaise([sa[j] EXCEPT !.opened = TRUE], "Connection error"))
  /\ UNCHANGED saRest

\* lines 281-382: the pop-up and the form; a failure is raised again
sa_form(j) ==
  /\ sa[j].at = "form"
  /\ \E ok \in BOOLEAN :
       SaSet(j, IF ok THEN [sa[j] EXCEPT !.at = "captcha"]
                      ELSE SaRaise(sa[j], "form"))
  /\ UNCHANGED saRest

\* lines 386-392: without a solved CAPTCHA the job has failed
sa_captcha(j) ==
  /\ sa[j].at = "captcha"
  /\ \E r \in {"solved", "unsolved", "raise"} :
       SaSet(j, CASE r = "solved" -> [sa[j] EXCEPT !.at = "results"]
                  [] r = "unsolved" ->
                       [sa[j] EXCEPT !.status = "failed", !.at = "finally",
                          !.error = "Failed to solve CAPTCHA after multiple attempts"]
                  [] OTHER -> SaRaise(sa[j], "captcha"))
  /\ UNCHANGED saRest

\* lines 395-421: the results table; no table within 30 s: failed; no
\* document: completed with a message
sa_results(j) ==
  /\ sa[j].at = "results"
  /\ \E r \in {"timeout", "none", "some", "raise"} :
       SaSet(j, CASE r = "timeout" ->
                       [sa[j] EXCEPT !.status = "failed", !.at = "finally",
                          !.error = "No results found or page timed out"]
                  [] r = "none" ->
                       [sa[j] EXCEPT !.status = "completed", !.at = "finally",
                          !.message = "No documents found for the given criteria"]
                  [] r = "some" -> [sa[j] EXCEPT !.at = "documents"]
                  [] OTHER -> SaRaise(sa[j], "results"))
  /\ UNCHANGED saRest

\* lines 424-536: the documents; completed when one was downloaded
sa_documents(j) ==
  /\ sa[j].at = "documents"
  /\ \E r \in {"downloaded", "nothing", "raise"} :
       SaSet(j, CASE r = "downloaded" -> [sa[j] EXCEPT !.status = "completed",
                                                       !.at = "finally"]
                  [] r = "nothing" ->
                       [sa[j] EXCEPT !.status = "failed", !.at = "finally",
                          !.error = "Failed to download any documents"]
                  [] OTHER -> SaRaise(sa[j], "documents"))
  /\ UNCHANGED saRest

\* lines 538-545: status "failed", error = str(e); the screenshot of line
\* 545 is taken when there is a driver, and an exception of it leaves the
\* function after the finally block
sa_except(j) ==
  /\ sa[j].at = "except"
  /\ \E ok \in BOOLEAN :
       SaSet(j, [sa[j] EXCEPT !.status = "failed", !.error = sa[j].exception,
                              !.at = "finally",
                              !.uncaught = sa[j].driver = "live" /\ ~ok])
  /\ UNCHANGED saRest

\* lines 547-554: the browser is quit; a failure is logged
sa_finally(j) ==
  /\ sa[j].at = "finally"
  /\ SaSet(j, [sa[j] EXCEPT !.at = "exit",
                            !.driver = IF @ = "live" THEN "quit" ELSE @])
  /\ UNCHANGED saRest

NextSelenium ==
  \E j \in J : \/ sa_running(j)
               \/ sa_chrome(j)
               \/ sa_open_website(j)
               \/ sa_form(j)
               \/ sa_captcha(j)
               \/ sa_results(j)
               \/ sa_documents(j)
               \/ sa_except(j)
               \/ sa_finally(j)

SpecSelenium == Init /\ [][NextSelenium]_vars

\* ------------------------------------------------------------ automation.py, the form
formRest == <<jobs, pc, driver, popped, locals, poolVars, response, solver, engine, store, sa,
              docs, hist>>

\* what a browser call of a stage raises: a timeout of a wait, a stale
\* element reference (both WebDriverException), or an exception that is not
\* a WebDriverException (the connection to the driver process is lost)
Transient == {"timeout", "stale"}

Exceptions == Transient \cup {"other"}

\* the exception reaches the handler of line 861
Fail(f, stage, e) == [f EXCEPT !.failed = stage, !.exception = e, !.at = "except"]

\* One attempt of the stage form.stage in a loop `for attempt in range(limit)`
\* whose except clause catches the exceptions of `caught`: the attempt
\* succeeds (break), or it raises; a caught exception before the last
\* attempt is logged and, after 2 s, the next attempt follows; on the last
\* attempt it is raised again; an exception that is not caught leaves the
\* loop at once.  A stage without a loop is the case limit = 1.
Attempt(f, caught, limit) ==
  LET g == [f EXCEPT !.attempts[f.stage] = @ + 1]
  IN {[g EXCEPT !.succeeded = @ \cup {f.stage}, !.attempt = 0, !.at = "between"]}
     \cup {IF e \in caught /\ f.attempt + 1 < limit
           THEN [g EXCEPT !.attempt = @ + 1]
           ELSE Fail(g, f.stage, e) : e \in Exceptions}

\* line 148: driver = driver_pool.get_driver()
fm_get_driver ==
  /\ form.at = "get_driver"
  /\ \E ok \in BOOLEAN :
       form' = IF ok THEN [form EXCEPT !.at = "stage", !.stage = 1, !.attempt = 0]
                     ELSE Fail(form, 0, "other")
  /\ UNCHANGED formRest

\* lines 150-162: for attempt in range(3): driver.get(...), wait for the
\* body; except (TimeoutException, WebDriverException): raise on attempt 2
fm_open_site ==
  /\ form.at = "stage" /\ form.stage = 1
  /\ form' \in Attempt(form, Transient, 3)
  /\ UNCHANGED formRest

\* lines 178-198: for attempt in range(3): click "Rest of Maharashtra",
\* wait for ddlFromYear1; except Exception: raise on attempt 2
fm_regional_mode ==
  /\ form.at = "stage" /\ form.stage = 2
  /\ form' \in Attempt(form, Exceptions, 3)
  /\ UNCHANGED formRest

\* a stage whose handler logs the exception and goes on to the next stage
fm_select_goes_on ==
  /\ form.at = "stage" /\ form.stage \in 3..7
  /\ form' \in {[g EXCEPT !.at = IF @ = "except" THEN "between" ELSE @,
                           !.failed = 0, !.exception = ""] : g \in Attempt(form, {}, 1)}
  /\ UNCHANGED formRest

\* lines 205-290: year, district, tahsil, village and property number: each
\* is one try block whose handler logs, takes a screenshot and raises
fm_select ==
  /\ form.at = "stage" /\ form.stage \in 3..7
  /\ form' \in Attempt(form, {}, 1)
  /\ UNCHANGED formRest

\* what stands between two stages, outside their try blocks: the screenshot
\* and the pop-up after the site opened (lines 165-176), the screenshot
\* after the regional mode (line 201) and the one of the filled form (line
\* 293); an exception there reaches line 861
fm_between ==
  /\ form.at = "between"
  /\ \E ok \in IF form.stage \in {1, 2, 7} THEN BOOLEAN ELSE {TRUE} :
       form' = IF ~ok THEN Fail(form, 0, "other")
               ELSE IF form.stage = 7 THEN [form EXCEPT !.at = "captcha"]
               ELSE [form EXCEPT !.at = "stage", !.stage = @ + 1]
  /\ UNCHANGED formRest

\* line 297: captcha_result = solve_and_submit_captcha(driver, property_no, 5)
fm_captcha ==
  /\ form.at = "captcha"
  /\ \E r \in {"True", "NO_RECORDS", "False", "raise"} :
       form' = IF r = "raise" THEN Fail([form EXCEPT !.called = TRUE], 0, "other")
               ELSE [form EXCEPT !.called = TRUE, !.captcha = r, !.at = "result"]
  /\ UNCHANGED formRest

\* lines 299-310: "NO_RECORDS": completed; False: failed, a screenshot;
\* otherwise the results are there
fm_result ==
  /\ form.at = "result"
  /\ \E ok \in BOOLEAN :
       form' = CASE form.captcha = "NO_RECORDS" ->
                      [form EXCEPT !.status = "completed", !.at = "done"]
                 [] form.captcha = "False" ->
                      IF ok THEN [form EXCEPT !.status = "failed", !.at = "done",
                                              !.error = "Failed to solve CAPTCHA after multiple attempts"]
                      ELSE Fail([form EXCEPT !.status = "failed"], 0, "other")
                 [] OTHER -> [form EXCEPT !.at = "count"]
  /\ UNCHANGED formRest

\* lines 312-341: a screenshot, then the IndexII buttons are counted: none:
\* completed; an exception while counting: failed; otherwise line 343
fm_count ==
  /\ form.at = "count"
  /\ \E r \in {"none", "some", "error", "raise"} :
       form' = CASE r = "none"  -> [form EXCEPT !.status = "completed", !.at = "done"]
                 [] r = "some"  -> [form EXCEPT !.at = "traversal", !.traversal = TRUE]
                 [] r = "error" -> [form EXCEPT !.status = "failed", !.at = "done",
                                                !.error = "Failed to find document links"]
                 [] r = "raise" -> Fail(form, 0, "other")
  /\ UNCHANGED formRest

\* lines 343-859 as one step: the traversal ends and the record is
\* completed, or an exception leaves it
fm_traversal ==
  /\ form.at = "traversal"
  /\ \E ok \in BOOLEAN :
       form' = IF ok THEN [form EXCEPT !.status = "completed", !.at = "done"]
                     ELSE Fail(form, 0, "other")
  /\ UNCHANGED formRest

\* lines 861-875: status "failed", error "Automation failed: ..."
fm_except ==
  /\ form.at = "except"
  /\ form' = [form EXCEPT !.status = "failed", !.error = "Automation failed", !.at = "done"]
  /\ UNCHANGED formRest

\* One run of the try block of run_automation, from line 146.
InitForm ==
  /\ InitCommon
  /\ solver = NoSolver /\ engine = NoEngine /\ store = NoStore /\ sa = NoSa
  /\ docs = NoDocs
  /\ form = [NoForm EXCEPT !.at = "get_driver"]

NextForm ==
  \/ fm_get_driver
  \/ fm_open_site
  \/ fm_regional_mode
  \/ fm_select
  \/ fm_between
  \/ fm_captcha
  \/ fm_result
  \/ fm_count
  \/ fm_traversal
  \/ fm_except

SpecForm == InitForm /\ [][NextForm]_vars

\* ------------------------------------------------------------ document_processor.py, one page
docsRest == <<jobs, pc, driver, popped, locals, poolVars, response, solver, engine, store, sa,
              form, hist>>

\* what a click does: it has an observable effect (a new tab, or another
\* location), it has none, or a browser call of the strategy raises
Click == {"effect", "none", "raise"}

\* the strategy has run: its name and its effect are noted
Tried(b, name, r) ==
  [b EXCEPT !.tried = Append(@, name), !.effects = Append(@, r = "effect"),
            !.click_successful = (r = "effect")]

\* return <ret> of process_button_simply, or the exception that leaves it
Leave(b, ret) == [b EXCEPT !.at = "return", !.ret = ret]

\* lines 886-914: the screenshot (its failure is logged), the wait of 15 s
\* for an IndexII button (TimeoutException: return zeros; another
\* exception reaches line 956), buttons = driver.find_elements(...)
ppd_begin ==
  /\ docs.at = "init"
  /\ \E r \in {"found", "timeout", "raise"} :
       CASE r = "found"   -> \E n \in 0..MaxButtons :
                               docs' = [docs EXCEPT !.at = "loop", !.buttons = n]
         [] r = "timeout" -> docs' = [docs EXCEPT !.at = "done"]
         [] r = "raise"   -> docs' = [docs EXCEPT !.at = "done", !.faulted = TRUE]
  /\ UNCHANGED docsRest

\* lines 917-932: for i in range(len(buttons)): the buttons are looked up
\* again (an exception reaches line 956); i >= len(fresh_buttons): break;
\* otherwise process_button_simply is called.  After the loop, and after
\* line 956, the two counters are returned (lines 963-967).
ppd_loop ==
  /\ docs.at = "loop"
  /\ IF docs.i < docs.buttons
     THEN \E ok \in BOOLEAN, fresh \in 0..MaxButtons :
            docs' = IF ~ok THEN [docs EXCEPT !.at = "done", !.faulted = TRUE]
                    ELSE IF docs.i >= fresh THEN [docs EXCEPT !.at = "done", !.broke = TRUE]
                    ELSE [docs EXCEPT !.at = "button",
                                      !.button = [NoButton EXCEPT !.at = "begin"]]
     ELSE docs' = [docs EXCEPT !.at = "done"]
  /\ UNCHANGED docsRest

\* lines 1391-1396: the handles and the location are read outside the try
\* block (an exception leaves the function); onclick is read inside it (an
\* exception reaches line 1597: return False); postback says whether
\* onclick holds a __doPostBack call
pbs_begin ==
  /\ docs.at = "button" /\ docs.button.at = "begin"
  /\ \E r \in {"ok", "raise_outside", "raise_inside"}, postback \in BOOLEAN :
       docs' = [docs EXCEPT !.button =
                  CASE r = "ok"            -> [@ EXCEPT !.at = "postback", !.postback = postback]
                    [] r = "raise_outside" -> Leave(@, "raise")
                    [] r = "raise_inside"  -> Leave(@, "False")]
  /\ UNCHANGED docsRest

\* lines 1398-1417, method 1: __doPostBack(target, argument) is executed
\* when onclick holds one; a new tab or another location sets
\* click_successful; an exception reaches line 1597
pbs_postback ==
  /\ docs.at = "button" /\ docs.button.at = "postback"
  /\ IF docs.button.postback
     THEN \E r \in Click :
            docs' = [docs EXCEPT !.button =
                       IF r = "raise" THEN Leave(Tried(@, "postback", r), "False")
                       ELSE [Tried(@, "postback", r) EXCEPT
                               !.at = IF r = "effect" THEN "handle" ELSE "native"]]
     ELSE docs' = [docs EXCEPT !.button.at = "native"]
  /\ UNCHANGED docsRest

\* lines 1419-1438, method 2, when click_successful is not set: the button
\* is scrolled to and clicked; a new tab or another location sets
\* click_successful; an exception goes to the handler of line 1439
pbs_native ==
  /\ docs.at = "button" /\ docs.button.at = "native"
  /\ \E r \in Click :
       docs' = [docs EXCEPT !.button =
                  [Tried(@, "native", r) EXCEPT
                     !.at = IF r = "raise" THEN "scripted" ELSE "handle"]]
  /\ UNCHANGED docsRest

\* lines 1439-1454, in the handler of method 2: arguments[0].click(); an
\* exception is logged
pbs_scripted ==
  /\ docs.at = "button" /\ docs.button.at = "scripted"
  /\ \E r \in Click :
       docs' = [docs EXCEPT !.button = [Tried(@, "scripted", r) EXCEPT !.at = "handle"]]
  /\ UNCHANGED docsRest

\* lines 1456-1630: without click_successful: return False; otherwise the
\* document of the new tab, or of the new location, is saved as PDF or as
\* a screenshot and success is returned; an exception on the way, or a
\* page that shows nothing new any more, returns False
pbs_handle ==
  /\ docs.at = "button" /\ docs.button.at = "handle"
  /\ \E success \in IF docs.button.click_successful THEN BOOLEAN ELSE {FALSE} :
       docs' = [docs EXCEPT !.button = Leave(@, IF success THEN "True" ELSE "False")]
  /\ UNCHANGED docsRest

\* a document that was not downloaded is not counted at all
ppd_after_button_downloads_only ==
  /\ docs.at = "button" /\ docs.button.at = "return"
  /\ docs' = [docs EXCEPT
                !.page_downloaded = IF docs.button.ret = "True" THEN @ + 1 ELSE @,
                !.page_processed = IF docs.button.ret = "True" THEN @ + 1 ELSE @,
                !.log = Append(@, docs.button.ret),
                !.clicks = Append(@, docs.button.tried),
                !.i = @ + 1, !.button = NoButton, !.at = "loop"]
  /\ UNCHANGED docsRest

\* lines 933-954: `if result: page_downloaded += 1`, then
\* page_processed += 1; an exception of process_button_simply is logged, a
\* recovery is tried, and the loop goes on with the next button
ppd_after_button ==
  /\ docs.at = "button" /\ docs.button.at = "return"
  /\ docs' = [docs EXCEPT
                !.page_downloaded = IF docs.button.ret = "True" THEN @ + 1 ELSE @,
                !.page_processed = IF docs.button.ret # "raise" THEN @ + 1 ELSE @,
                !.log = Append(@, docs.button.ret),
                !.clicks = Append(@, docs.button.tried),
                !.i = @ + 1, !.button = NoButton, !.at = "loop"]
  /\ UNCHANGED docsRest

\* One call of process_page_documents.
InitDocs ==
  /\ InitCommon
  /\ solver = NoSolver /\ engine = NoEngine /\ store = NoStore /\ sa = NoSa
  /\ form = NoForm
  /\ docs = [NoDocs EXCEPT !.at = "init"]

NextDocs ==
  \/ ppd_begin
  \/ ppd_loop
  \/ pbs_begin
  \/ pbs_postback
  \/ pbs_native
  \/ pbs_scripted
  \/ pbs_handle
  \/ ppd_after_button

SpecDocs == InitDocs /\ [][NextDocs]_vars

\* ------------------------------------------------------------ a record removed during its run
\* One request and its thread (lines 109-143 left out, the traversal as
\* one step), with the handler of DELETE /api/cleanup_job and the sweep
\* cleanup_old_jobs running beside it.
NextRemoval ==
  \/ \E j \in Solo :
       \/ download_documents(j)
       \/ ra_running(j)
       \/ ra_makedirs(j)
       \/ ra_try(j)
       \/ get_driver_lock(j)
       \/ get_driver_create(j)
       \/ ra_open_site(j)
       \/ ra_fill_form(j)
       \/ ra_captcha(j)
       \/ ra_no_records(j)
       \/ ra_captcha_failed(j)
       \/ ra_count(j)
       \/ ra_no_documents(j)
       \/ ra_links_failed(j)
       \/ ra_estimate(j)
       \/ ra_traverse(j)
       \/ ra_complete(j)
       \/ ra_except(j)
       \/ ra_finally(j)
       \/ return_driver_cookies(j)
       \/ return_driver_tabs(j)
       \/ return_driver_blank(j)
       \/ return_driver_lock(j)
       \/ return_driver_except(j)
       \/ ra_after_return(j)
       \/ ra_cleanup_error(j)
       \/ day_passes(j)
       \/ cleanup_job_lookup(j)
  \/ cleanup_job_rmtree
  \/ cleanup_job_del
  \/ cleanup_old_jobs_begin
  \/ cleanup_old_jobs_scan
  \/ cleanup_old_jobs_remove

SpecRemoval == Init /\ [][NextRemoval]_vars

\* ------------------------------------------------------------ claims
\* the job still makes browser calls on the handle: it has taken it from the
\* pool or constructed it, and its call of return_driver has not returned
Holds(j, h) ==
  /\ h # None
  /\ \/ popped[j] = h
     \/ driver[j] = h /\ pc[j] # "rmdir"

\* C1: no handle is in available_drivers while a running job holds it, and no
\* two running jobs hold the same handle.
C1_ExclusiveOwnership ==
  /\ \A j \in J : \A h \in H : Holds(j, h) => h \notin Range(available_drivers)
  /\ \A j1, j2 \in J : \A h \in H : (j1 # j2 /\ Holds(j1, h)) => ~Holds(j2, h)

\* C2: a run that obtained a handle has, when it ends, disposed of it exactly
\* once: returned it to the pool or quit it, not both, not twice, not never.
C2_ExactlyOneDisposal ==
  \A j \in J : (pc[j] = "exit" /\ hist[j].obtained) => hist[j].pooled + hist[j].quits = 1

\* C3: a job whose run has ended is not left 'running': its status is
\* 'completed' or 'failed'.
C3_EndsCompletedOrFailed ==
  \A j \in J : pc[j] = "exit" => jobs[j].status \in {"completed", "failed"}

\* C4: a run in which an exception was raised after the job was marked
\* 'running' ends with status 'failed' and a non-empty error message.
C4_RaisedEndsFailed ==
  \A j \in J : (pc[j] = "exit" /\ hist[j].raised)
                  => (jobs[j].status = "failed" /\ jobs[j].error # "")

\* C5: every handle in available_drivers has at most one tab and no cookies.
C5_PooledHandlesClean ==
  \A h \in Range(available_drivers) : handles[h].tabs <= 1 /\ ~handles[h].cookies

\* C6: when a step of return_driver's reset failed, return_driver has quit the
\* handle and has not appended it to available_drivers.
C6_FailedResetNotPooled ==
  \A j \in J : (pc[j] = "rmdir" /\ hist[j].resetFailed)
                  => (hist[j].pooled = 0 /\ handles[driver[j]].state = "quit")

\* C7: available_drivers never holds more than max_drivers handles, and a
\* handle returned while it holds max_drivers is quit and not pooled.
C7_IdleBounded ==
  /\ Len(available_drivers) <= max_drivers
  /\ \A j \in J : (pc[j] = "rmdir" /\ hist[j].sawFull)
                     => (hist[j].pooled = 0 /\ handles[driver[j]].state = "quit")

C7_Witness ==
  \E j \in J : /\ pc[j] = "rmdir" /\ hist[j].sawFull
               /\ Len(available_drivers) = max_drivers

\* C8: get_driver raises only when the construction of the handle raised, and
\* with available_drivers empty it is never kept from constructing one,
\* however many handles are in flight.
C8_NoCapacityFailure ==
  \A j \in J :
    /\ (pc[j] = "except" /\ driver[j] = None) => hist[j].ctorRaised
    /\ pc[j] = "gd_create" => ENABLED get_driver_create(j)

C8_Witness ==
  /\ Cardinality(InFlight) > max_drivers
  /\ \E j \in J : driver[j] = j /\ pc[j] = "open_site" /\ Cardinality(InFlight \ {j}) >= max_drivers

C10_StatusOrder ==
  [][\A j \in J :
       /\ (j \notin DOMAIN jobs /\ j \in DOMAIN jobs') => jobs'[j].status = "starting"
       /\ (j \in DOMAIN jobs /\ j \in DOMAIN jobs') =>
            \/ jobs'[j].status = jobs[j].status
            \/ <<jobs[j].status, jobs'[j].status>> \in
                 {<<"starting", "running">>, <<"running", "completed">>,
                  <<"running", "failed">>}]_vars

C10_Witness ==
  \E j \in J : /\ pc[j] = "exc_error"
               /\ jobs[j].status = "failed"
               /\ jobs[j].error = "Failed to solve CAPTCHA after multiple attempts"

\* the answer job_status has returned for a job that exists
Answered == response.at = "idle" /\ response.code = 200

\* C11: once a job's status is 'completed' the run writes neither
\* total_documents nor downloaded_documents, and an answer of job_status with
\* status 'completed' carries the final values of both.
C11_NoTornCompleted ==
  /\ [](Answered /\ response.status = "completed" =>
          /\ response.total_documents = jobs[response.job_id].total_documents
          /\ response.downloaded_documents = jobs[response.job_id].downloaded_documents)
  /\ [][\A j \in DOMAIN jobs :
          jobs[j].status = "completed" =>
            /\ jobs'[j].total_documents = jobs[j].total_documents
            /\ jobs'[j].downloaded_documents = jobs[j].downloaded_documents]_vars

C11_Witness ==
  /\ Answered
  /\ response.status = "completed"
  /\ response.downloaded_documents > MaxDocs
  /\ response.total_documents = response.downloaded_documents

\* C12: whenever a job's status is 'failed' its record carries a non-empty
\* error, and so does every answer of job_status with status 'failed'.
C12_FailedHasError ==
  /\ \A j \in DOMAIN jobs : jobs[j].status = "failed" => jobs[j].error # ""
  /\ (Answered /\ response.status = "failed") => response.error # ""

Max(a, b) == IF a >= b THEN a ELSE b

\* the positions of the traversal, lines 319-859
Traversal == {"count", "zero_check", "zero_status", "zero_message", "lf_status", "lf_error",
              "lf_shot", "estimate", "loop", "document", "paginate", "final",
              "done_status", "done_message"}

\* the positions after the try block was left
Leaving == {"finally", "f_tabs", "f_blank", "rd_cookies", "rd_tabs", "rd_blank", "rd_lock",
            "rd_full", "rd_except", "rmdir", "f_quit", "exit"}

\* C13: downloaded_documents never exceeds the number of distinct documents
\* of which a file was written.
C13_NotOverstated ==
  \A j \in DOMAIN jobs :
    jobs[j].downloaded_documents <= Cardinality({f[1] : f \in hist[j].files})

\* C14: while the traversal runs, downloaded_documents <=
\* max(total_documents, documents_processed).
C14_DownloadedBounded ==
  \A j \in DOMAIN jobs :
    pc[j] \in {"loop", "document", "paginate", "final"} =>
      jobs[j].downloaded_documents <=
        Max(jobs[j].total_documents, documents_processed[j])

\* C15: no step lowers the total_documents of a job record.
C15_TotalMonotonic ==
  [][\A j \in DOMAIN jobs :
       j \in DOMAIN jobs' => jobs'[j].total_documents >= jobs[j].total_documents]_vars

\* C16: after solve_and_submit_captcha returned NO_RECORDS the run never
\* enters the traversal, writes no file and leaves both counts 0, its status
\* is never 'failed', and once it has left the try block the status is
\* 'completed' and the record has a message.
C16_NoRecordsCompleted ==
  \A j \in J :
    hist[j].captcha = "NO_RECORDS" =>
      /\ pc[j] \notin Traversal
      /\ jobs[j].status # "failed"
      /\ jobs[j].total_documents = 0 /\ jobs[j].downloaded_documents = 0
      /\ hist[j].files = {}
      /\ pc[j] \in Leaving => (jobs[j].status = "completed" /\ jobs[j].message # "")

C16_Witness ==
  \E j \in J : hist[j].captcha = "NO_RECORDS" /\ pc[j] = "exit"
                 /\ jobs[j].status = "completed"

\* C17: after solve_and_submit_captcha returned False the run never enters
\* the traversal, once it has left the try block the status is 'failed' and
\* the record has an error, and no step removes a file that was written.
C17_CaptchaFailedFails ==
  /\ [](\A j \in J :
          hist[j].captcha = "False" =>
            /\ pc[j] \notin Traversal
            /\ pc[j] \in Leaving => (jobs[j].status = "failed" /\ jobs[j].error # ""))
  /\ [][\A j \in J : hist[j].files \subseteq hist'[j].files]_vars

C17_Witness ==
  \E j \in J : hist[j].captcha = "False" /\ pc[j] = "exit" /\ jobs[j].status = "failed"
                 /\ jobs[j].error = "Failed to solve CAPTCHA after multiple attempts"

Returned18 == solver.at = "done" /\ solver.result # "raise"

C19_ClickOnlyIfUnchanged ==
  ~solver.uncheckedClick /\ ~solver.rotatedClick

\* C20: an attempt given up because the image rotated takes exactly one
\* attempt: the attempts begun are the clicked, the abandoned and the other
\* ones, plus at most the one in progress; a call that returns True after
\* one abandoned attempt and one click, and no other attempt, has used 2.
C20_AbandonedTakesOneAttempt ==
  /\ solver.clicks + solver.abandoned + solver.other <= solver.attempts
  /\ solver.attempts <= solver.clicks + solver.abandoned + solver.other + 1
  /\ solver.at = "final" =>
        solver.attempts = solver.clicks + solver.abandoned + solver.other
  /\ (solver.at = "done" /\ solver.result = "True" /\ solver.abandoned = 1
        /\ solver.other = 0 /\ solver.clicks = 1) => solver.attempts = 2

C20_Witness ==
  /\ solver.at = "done" /\ solver.result = "True"
  /\ solver.abandoned = 1 /\ solver.other = 0 /\ solver.clicks = 1
  /\ solver.attempts = 2
  /\ ~solver.rotatedClick /\ ~solver.uncheckedClick
  /\ solver.image = 2

\* C27: no job executes a browser operation (closing tabs, deleting cookies,
\* loading the blank page, quitting or constructing a browser) while it
\* holds the lock of the pool.
C27_LockOnlyAroundList ==
  \A j \in J : lock = j => pc[j] \notin {"gd_tabs", "gd_reset", "gd_create"}

\* C28: a call of solve_and_submit_captcha that has ended has returned True,
\* "NO_RECORDS" or False, after at most max_attempts iterations, and False
\* only when the page shows neither the links nor the no-records message.
C28_ThreeOutcomes ==
  /\ solver.attempts <= solver.max_attempts
  /\ solver.at = "done" =>
       /\ solver.result \in {"True", "NO_RECORDS", "False"}
       /\ solver.result = "False" => solver.page \notin {"links", "no_records"}

\* C21: on a site whose pagination works, a call of process_all_index_buttons
\* in which no browser call failed ends with a summary in which the
\* documents of each of the P pages were added exactly once.
C21_EachPageOnce ==
  (engine.kind = "working" /\ ~engine.faulted /\ engine.at = "done") =>
    /\ engine.result = "summary"
    /\ engine.documents_processed = engine.pages
    /\ \A p \in 1..engine.pages : engine.counted[p] = 1

\* C22: documents are never added for a page id that is already in
\* processed_pages.
C22_NeverReprocessed == ~engine.reprocessed

\* C23: on a stuck site (every advance shows the same page with its action
\* elements) the call ends with a summary after at most
\* max_navigation_failures forced advances, and the documents of the first
\* page were added once.
C23_StuckEndsSoon ==
  (engine.kind = "stuck" /\ ~engine.faulted /\ engine.at = "done") =>
    /\ engine.result = "summary"
    /\ engine.forced <= max_navigation_failures
    /\ engine.counted[1] = 1

C30_StrategiesInOrder ==
  engine.nav.at = "ret" =>
    LET tried == engine.nav.tried
    IN /\ \A i \in 1..Len(tried) :
            /\ \A k \in 1..(i - 1) : tried[k] < tried[i]
            /\ \A s \in 1..(tried[i] - 1) : s \in engine.nav.skipped \cup Range(tried)
       /\ engine.nav.ret => engine.nav.verified /\ engine.buttons /\ tried # << >>
       /\ ~engine.nav.ret => 4 \in Range(tried)

\* C24: no record is in `jobs` while its output directory has been deleted
\* by cleanup_old_jobs (a reader of that state finds the record without
\* its directory), and every record the sweep removed was older than 24
\* hours.
C24_SweepAtomicForReaders ==
  /\ \A j \in J : Present(j) => store.rmtree[j] # "cleanup_old_jobs"
  /\ \A j \in store.swept : store.old[j]

\* C25: a cleanup_job that answers 200 has removed the record and the
\* directory; a job_status request that begins for a removed id is
\* answered 404; a cleanup_job whose rmtree fails answers 500 and leaves
\* the records as they were; one for an unknown id answers 404 and changes
\* neither records nor directories.
C25_CleanupJob ==
  [][LET j == store.cj.job_id
         answered(code) == store.cj.at # "idle" /\ store'.cj.at = "idle"
                             /\ store'.cj.code = code
     IN /\ answered(200) =>
             /\ j \notin DOMAIN jobs' \/ j \in store'.deleted
             /\ ~store'.dir[j]
        /\ (store.cj.at = "rmtree" /\ answered(500)) =>
             jobs' = jobs /\ store'.deleted = store.deleted
        /\ (store.cj.at = "idle" /\ store'.cj # store.cj /\ store'.cj.code = 404) =>
             /\ jobs' = jobs /\ store'.deleted = store.deleted
             /\ store'.dir = store.dir
        /\ (response.at = "idle" /\ response' # response
               /\ response'.job_id \in store.deleted) =>
             response'.code = 404 /\ response'.at = "idle"
    ]_vars

\* C26: a run of selenium_automation.run_automation in which opening the
\* website raised ends with the status "error" and with the text of the
\* exception under the key error_message.
C26_OpenErrorRecorded ==
  \A j \in J : (sa[j].at = "exit" /\ sa[j].opened) =>
                 sa[j].status = "error" /\ sa[j].error_message = sa[j].exception

\* C36: process_page_documents is run at most max_attempts_per_page times
\* for any one value of current_page, whatever the remote page does: a
\* value that comes up again after that is navigated away from unprocessed.
C36_RunsPerPageBounded ==
  /\ \A p \in DOMAIN engine.runs : engine.runs[p] <= max_attempts_per_page
  /\ engine.at = "process"
        => Get(engine.page_attempts, engine.current_page) <= max_attempts_per_page

C36_Witness ==
  \E p \in DOMAIN engine.runs :
    /\ engine.runs[p] = max_attempts_per_page
    /\ engine.page_attempts[p] > max_attempts_per_page
    /\ engine.at = "done"

\* C39: consecutive_failures never exceeds 1, so the exit on
\* consecutive_failures >= max_navigation_failures is never taken: a failed
\* navigation is followed by the refresh, and a retry that fails too ends
\* the traversal.
Failed(at) == engine.at = at /\ ~engine.nav.ret

C39_FailuresAtMostOne ==
  /\ [](engine.consecutive_failures <= 1 /\ 1 < max_navigation_failures)
  /\ [][/\ (Failed("navigated") /\ engine'.at # "navigated") => engine'.at = "refresh"
        /\ (Failed("retried") /\ engine'.at # "retried") => engine'.at = "summary"]_vars

C39_Witness ==
  /\ engine.at = "done" /\ engine.result = "summary" /\ ~engine.faulted
  /\ engine.consecutive_failures = 1
  /\ engine.iteration > 1

\* C35: every handle in available_drivers is live: quit is not called on a
\* handle between its being appended to the pool and its being handed out
\* again, by the cleanup code of the job that returned it or by anyone.
C35_PooledHandlesLive ==
  \A h \in Range(available_drivers) : Alive(h)

\* C37: the loop `while documents_processed < total_documents_found` ends
\* whatever the remote page does: every iteration that does not leave the
\* loop raises documents_processed by at least 1, so there are at most
\* total_documents_found iterations.
InLoop(j) == pc[j] \in {"loop", "document", "paginate"}

C37_TraversalTerminates ==
  /\ [](\A j \in Solo :
         /\ hist[j].iterations <= total_documents_found[j]
         /\ pc[j] = "loop" => hist[j].iterations <= documents_processed[j])
  /\ \A j \in Solo : InLoop(j) ~> ~InLoop(j)

C37_Witness ==
  \E j \in Solo :
    /\ pc[j] = "final"
    /\ hist[j].iterations = MaxTotal
    /\ documents_processed[j] = total_documents_found[j]

\* C33: each form stage (open site, regional mode, year, district, tahsil,
\* village, property number) is attempted 3 times before a transient
\* failure (timeout, stale reference) makes the stage fail.
C33_StagesRetried ==
  (form.failed # 0 /\ form.exception \in Transient) => form.attempts[form.failed] = 3

\* C34: the steps of a job are sequential: a stage is attempted after the
\* stages before it succeeded, solve_and_submit_captcha is called after all
\* stages succeeded, the traversal is started after it returned True; a run
\* in which a form stage failed ends 'failed', the CAPTCHA protocol and the
\* traversal never having run.
C34_Sequential ==
  /\ \A s \in 1..7 : form.attempts[s] > 0 => 1..(s - 1) \subseteq form.succeeded
  /\ form.called => form.succeeded = 1..7
  /\ form.traversal => form.captcha = "True"
  /\ form.failed # 0 => (~form.called /\ ~form.traversal /\ form.at \in {"except", "done"})
  /\ (form.failed # 0 /\ form.at = "done") => form.status = "failed"

C34_Witness ==
  /\ form.at = "done" /\ form.failed = 6 /\ form.status = "failed"
  /\ form.succeeded = 1..5

\* C31: a document whose every click strategy failed is counted as
\* processed and not as downloaded, the action elements after it are
\* still attempted, and 0 <= downloaded <= processed <= the number of
\* action elements found when processing started.
Count(log, S) == Cardinality({k \in 1..Len(log) : log[k] \in S})

AllStrategies == <<"postback", "native", "scripted">>

C31_PartialFailureNotFatal ==
  /\ 0 <= docs.page_downloaded
  /\ docs.page_downloaded <= docs.page_processed
  /\ docs.page_processed <= docs.buttons
  /\ docs.page_processed = Count(docs.log, {"True", "False"})
  /\ docs.page_downloaded = Count(docs.log, {"True"})
  /\ Len(docs.log) = docs.i
  /\ (docs.at = "done" /\ ~docs.broke /\ ~docs.faulted) => Len(docs.log) = docs.buttons

C31_Witness ==
  /\ docs.at = "done" /\ docs.buttons >= 2 /\ Len(docs.log) = docs.buttons
  /\ docs.log[1] = "False" /\ docs.clicks[1] = AllStrategies
  /\ docs.log[2] = "True"
  /\ docs.page_processed = docs.buttons /\ docs.page_downloaded = 1

\* C32: the strategies of process_button_simply run in the order direct
\* postback, native click, scripted click; none runs after one that had an
\* observable effect; each later one runs whenever the earlier ones had no
\* effect, so that a click is given up only after all three were tried
\* without effect.
Position(name) == CHOOSE k \in 1..3 : AllStrategies[k] = name

C32_StrategiesInOrder ==
  LET b == docs.button
  IN /\ \A k \in 1..Len(b.tried) : \A l \in 1..Len(b.tried) :
          k < l => Position(b.tried[k]) < Position(b.tried[l])
     /\ \A k \in 1..Len(b.tried) : b.effects[k] => k = Len(b.tried)
     /\ (b.at \in {"handle", "return"} /\ b.tried # << >> /\ ~b.click_successful)
          => b.tried = AllStrategies

\* C38: a run whose record was removed while it was in flight still
\* disposes of the browser handle it obtained (it is returned to the pool
\* or quit), and no later write of the run brings the record back or
\* changes what was removed.
C38_RemovedWhileRunning ==
  /\ [](\A j \in Solo : (pc[j] = "exit" /\ hist[j].obtained)
                           => hist[j].pooled + hist[j].quits >= 1)
  /\ [][\A j \in store.deleted : j \in store'.deleted /\ jobs'[j] = jobs[j]]_vars

C38_Witness ==
  \E j \in Solo :
    /\ pc[j] = "exit" /\ hist[j].obtained /\ hist[j].uncaught
    /\ j \in store.deleted
    /\ hist[j].pooled + hist[j].quits >= 1
    /\ jobs[j].status = "running"

====
